---- MODULE Spec2Model ----
(***************************************************************************)
(* Verification model of the Azure DevOps MCP server (Python port).        *)
(*                                                                         *)
(* The module holds several state machines that share one variable list:   *)
(*   SpecDomains   - DomainsManager (shared/domains.py)                     *)
(*   SpecRegistrar - configure_all_tools (tools/__init__.py)                *)
(*   SpecHttp      - run_http_server and its PAT gate (main.py)             *)
(*   SpecTools     - the tool bodies of the nine domain modules (tools/)    *)
(*   SpecTenant    - get_org_tenant and its cache file (org_tenants.py)     *)
(*   SpecTenantRace - two server instances sharing the cache file           *)
(*   SpecAuth      - the authenticators (auth.py)                           *)
(*   SpecUserAgent - UserAgentComposer (useragent.py)                       *)
(*   SpecCli       - main() from the command line to the transport (main.py)*)
(*   SpecToolBodies - work-item and repository tool bodies, call by call    *)
(*   SpecRobust    - the robust launcher (robust_mcp_server.py)             *)
(*   SpecDirect    - the direct launcher (direct_mcp_server.py)             *)
(* Every specification leaves the variables of the other machines alone.   *)
(***************************************************************************)
EXTENDS Integers, Sequences, FiniteSets, TLC

VARIABLES
    dm_input,        \* DomainsManager: the domains_input argument
    dm_enabled,      \* DomainsManager.enabled_domains
    dm_pc,           \* "new" before __init__ has run, "ready" after
    dm_query,        \* last is_domain_enabled call: <<name, answer>>, or <<>>
    cfg_enabled,     \* configure_all_tools: the enabled_domains argument
    cfg_idx,         \* number of configure_if_domain_enabled calls made
    cfg_calls,       \* configuration functions invoked so far, in order
    cfg_tools,       \* tool functions registered on the server so far
    http_pc,         \* run_http_server: "starting", then "serving"
    http_args,       \* run_http_server: its organization and domains arguments
    organization,    \* run_http_server: the organization the closures capture
    enabled_domains, \* run_http_server: domains_manager.get_enabled_domains()
    mcp_tools,       \* tool functions decorated onto the FastMCP instance
    current_pat_token, \* run_http_server: the variable shared by all requests
    requests,        \* the HTTP exchanges in flight, by connection slot
    tool_pc,         \* tool body: "idle", "running", "returned" or "escaped"
    tool_call,       \* the tool function invoked and its arguments mapping
    tool_step,       \* position in the calls the body makes after validation
    tool_effects,    \* token-provider, connection and remote calls made so far
    tool_result,     \* the List[TextContent] the body returned, <<>> before
    tool_served,     \* invocations the server has answered
    tool_raised,     \* invocations in which a call raised
    tool_entry,      \* entries a loop over an argument list has gone through
    tool_token,      \* tool body: what its local variable token is bound to
    tool_credential, \* the password or Bearer value the body has presented
    tn_now,          \* org_tenants: time.time() * 1000, from the first start
    tn_ticks,        \* number of clock advances so far
    tn_file,         \* the cache file ~/.ado_orgs.cache
    tn_pc,           \* get_org_tenant: "idle", "fetching", "returned", "raised"
    tn_org,          \* get_org_tenant: org_name
    tn_cache,        \* get_org_tenant: cache, as load_cache returned it
    tn_entry,        \* get_org_tenant: cached_entry
    tn_called_at,    \* the clock when is_cache_entry_expired read it
    tn_reads,        \* load_cache calls made by this call
    tn_writes,       \* try_saving_cache calls made by this call
    tn_lookups,      \* HEAD requests issued by this call
    tn_response,     \* what the HEAD request of this call met
    tn_result,       \* what get_org_tenant returned
    tn_calls,        \* get_org_tenant calls completed
    au_pc,           \* create_authenticator: "new", then "created"
    au_args,         \* create_authenticator: auth_type, tenant_id, pat_token
    au_env_dev,      \* os.environ["AZURE_TOKEN_CREDENTIALS"] is "dev"
    au_authority,    \* authority of the last InteractiveBrowserCredential
    au_invocations,  \* awaited invocations of the returned get_token
    au_outcome,      \* how the last awaited invocation ended
    ua_pc,           \* UserAgentComposer: "new", then "made"
    ua_user_agent,   \* UserAgentComposer._user_agent
    ua_appended,     \* UserAgentComposer._mcp_client_info_appended
    ua_last_info,    \* argument of the last append_mcp_client_info call
    ua_calls,        \* append_mcp_client_info calls made
    ua_package_version, \* the constructor's argument
    ua_infos,        \* arguments of the append_mcp_client_info calls, in order
    cli_pc,          \* main: "start", "in_run_server", ..., "serving", "exited"
    cli_args,        \* main: its parameters and AZURE_DEVOPS_ORG
    cli_exit,        \* exit code of the process, -1 while it runs
    cli_org_name,    \* run_server: its organization argument
    cli_run_calls,   \* run_server calls made
    cli_server,      \* the server started: "none", "stdio" or "http"
    cli_err,         \* what main wrote to standard error
    cli_tenant,      \* main: its tenant parameter
    cli_tenant_id,   \* run_stdio_server: tenant_id
    cli_resolver,    \* get_org_tenant calls and the accesses they made
    cli_auth,        \* create_authenticator calls and their last arguments
    tb_pc,           \* a tool body followed call by call: its position
    tb_tool,         \* the tool function invoked, "" when none is
    tb_args,         \* its arguments mapping
    tb_locals,       \* its local variables
    tb_calls,        \* the remote calls it has issued, in order
    tb_result,       \* the List[TextContent] it returned
    tb_relations,    \* remote: the relations of the source work item
    tb_done,         \* invocations answered
    tb_linked,       \* the relation the call before added, if it was a link that succeeded
    rc_now,          \* two instances: time.time() * 1000 while both start
    rc_file,         \* the one cache file both instances use
    rc_pc,           \* each instance: its position in get_org_tenant
    rc_org,          \* each instance: org_name
    rc_cache,        \* each instance: cache, its own dict
    rc_entry,        \* each instance: cached_entry
    rc_result,       \* each instance: what get_org_tenant returned
    rc_log,          \* file accesses so far: <<instance, access, outcome>>
    rb_pc,           \* robust_mcp_server.main: its position
    rb_env,          \* the environment: AZURE_DEVOPS_ORG and PORT
    rb_port,         \* main: port
    rb_startup_error,\* the global startup_error
    rb_startup_logs, \* the global startup_logs
    rb_bound,        \* the port the process listens on, 0 when on none
    rb_response,     \* the last response of the error server
    rb_gets,         \* requests the error server has answered
    dr_pc,           \* direct_mcp_server.main: "start", "serving" or "exited"
    dr_org,          \* the environment: AZURE_DEVOPS_ORG
    dr_token,        \* main: current_pat_token, shared by all requests
    dr_requests,     \* the exchanges in flight, by connection slot
    dr_last_pat      \* the PAT header value of the last request that had one

dmVars == <<dm_input, dm_enabled, dm_pc, dm_query>>

cfgVars == <<cfg_enabled, cfg_idx, cfg_calls, cfg_tools>>

httpVars ==
    <<http_pc, http_args, organization, enabled_domains, mcp_tools,
      current_pat_token, requests>>

toolVars ==
    <<tool_pc, tool_call, tool_step, tool_effects, tool_result, tool_served,
      tool_raised, tool_entry, tool_token, tool_credential>>

tenantVars ==
    <<tn_now, tn_ticks, tn_file, tn_pc, tn_org, tn_cache, tn_entry,
      tn_called_at, tn_reads, tn_writes, tn_lookups, tn_response, tn_result,
      tn_calls>>

authVars ==
    <<au_pc, au_args, au_env_dev, au_authority, au_invocations, au_outcome>>

uaVars ==
    <<ua_pc, ua_user_agent, ua_appended, ua_last_info, ua_calls,
      ua_package_version, ua_infos>>

cliVars ==
    <<cli_pc, cli_args, cli_exit, cli_org_name, cli_run_calls, cli_server,
      cli_err, cli_tenant, cli_tenant_id, cli_resolver, cli_auth>>

bodyVars ==
    <<tb_pc, tb_tool, tb_args, tb_locals, tb_calls, tb_result,
      tb_relations, tb_done, tb_linked>>

raceVars ==
    <<rc_now, rc_file, rc_pc, rc_org, rc_cache, rc_entry, rc_result,
      rc_log>>

robustVars ==
    <<rb_pc, rb_env, rb_port, rb_startup_error, rb_startup_logs, rb_bound,
      rb_response, rb_gets>>

directVars ==
    <<dr_pc, dr_org, dr_token, dr_requests, dr_last_pat>>

\* what the actions of one machine leave alone
notDmVars ==
    <<cfgVars, httpVars, toolVars, tenantVars, authVars, uaVars, cliVars,
      bodyVars, raceVars, robustVars, directVars>>

notCfgVars ==
    <<dmVars, httpVars, toolVars, tenantVars, authVars, uaVars, cliVars,
      bodyVars, raceVars, robustVars, directVars>>

notHttpVars ==
    <<dmVars, cfgVars, toolVars, tenantVars, authVars, uaVars, cliVars,
      bodyVars, raceVars, robustVars, directVars>>

notToolVars ==
    <<dmVars, cfgVars, httpVars, tenantVars, authVars, uaVars, cliVars,
      bodyVars, raceVars, robustVars, directVars>>

notTenantVars ==
    <<dmVars, cfgVars, httpVars, toolVars, authVars, uaVars, cliVars,
      bodyVars, raceVars, robustVars, directVars>>

notAuthVars ==
    <<dmVars, cfgVars, httpVars, toolVars, tenantVars, uaVars, cliVars,
      bodyVars, raceVars, robustVars, directVars>>

notUaVars ==
    <<dmVars, cfgVars, httpVars, toolVars, tenantVars, authVars, cliVars,
      bodyVars, raceVars, robustVars, directVars>>

notCliVars ==
    <<dmVars, cfgVars, httpVars, toolVars, tenantVars, authVars, uaVars,
      bodyVars, raceVars, robustVars, directVars>>

notBodyVars ==
    <<dmVars, cfgVars, httpVars, toolVars, tenantVars, authVars, uaVars,
      cliVars, raceVars, robustVars, directVars>>

notRaceVars ==
    <<dmVars, cfgVars, httpVars, toolVars, tenantVars, authVars, uaVars,
      cliVars, bodyVars, robustVars, directVars>>

notRobustVars ==
    <<dmVars, cfgVars, httpVars, toolVars, tenantVars, authVars, uaVars,
      cliVars, bodyVars, raceVars, directVars>>

notDirectVars ==
    <<dmVars, cfgVars, httpVars, toolVars, tenantVars, authVars, uaVars,
      cliVars, bodyVars, raceVars, robustVars>>

(***************************************************************************)
(* Strings are sequences of one-character strings, so that strip, lower    *)
(* and split act on characters as str.strip, str.lower and str.split do.   *)
(***************************************************************************)
UpperAlpha ==
    <<"A","B","C","D","E","F","G","H","I","J","K","L","M",
      "N","O","P","Q","R","S","T","U","V","W","X","Y","Z">>

LowerAlpha ==
    <<"a","b","c","d","e","f","g","h","i","j","k","l","m",
      "n","o","p","q","r","s","t","u","v","w","x","y","z">>

Whitespace == {" ", "\t"}

LowerChar(c) ==
    IF \E i \in 1..26 : UpperAlpha[i] = c
    THEN LowerAlpha[CHOOSE i \in 1..26 : UpperAlpha[i] = c]
    ELSE c

UpperChar(c) ==
    IF \E i \in 1..26 : LowerAlpha[i] = c
    THEN UpperAlpha[CHOOSE i \in 1..26 : LowerAlpha[i] = c]
    ELSE c

\* str.lower()
Lower(s) == [i \in 1..Len(s) |-> LowerChar(s[i])]

\* str.upper(), used only to build inputs
Upper(s) == [i \in 1..Len(s) |-> UpperChar(s[i])]

RECURSIVE LStrip(_)
LStrip(s) ==
    IF s # <<>> /\ Head(s) \in Whitespace THEN LStrip(Tail(s)) ELSE s

RECURSIVE RStrip(_)
RStrip(s) ==
    IF s # <<>> /\ s[Len(s)] \in Whitespace
    THEN RStrip(SubSeq(s, 1, Len(s) - 1))
    ELSE s

\* str.strip()
Strip(s) == RStrip(LStrip(s))

\* str.split(sep): always at least one piece
RECURSIVE SplitAcc(_, _, _)
SplitAcc(s, sep, cur) ==
    IF s = <<>> THEN <<cur>>
    ELSE IF Head(s) = sep THEN <<cur>> \o SplitAcc(Tail(s), sep, <<>>)
    ELSE SplitAcc(Tail(s), sep, Append(cur, Head(s)))

Split(s, sep) == SplitAcc(s, sep, <<>>)

\* sep.join(parts), used only to build inputs
RECURSIVE Join(_, _)
Join(parts, sep) ==
    IF parts = <<>> THEN <<>>
    ELSE IF Len(parts) = 1 THEN parts[1]
    ELSE parts[1] \o <<sep>> \o Join(Tail(parts), sep)

(***************************************************************************)
(* shared/domains.py                                                       *)
(***************************************************************************)
ADVANCED_SECURITY == <<"a","d","v","a","n","c","e","d","-","s","e","c","u","r","i","t","y">>
PIPELINES == <<"p","i","p","e","l","i","n","e","s">>
CORE == <<"c","o","r","e">>
REPOSITORIES == <<"r","e","p","o","s","i","t","o","r","i","e","s">>
SEARCH == <<"s","e","a","r","c","h">>
TEST_PLANS == <<"t","e","s","t","-","p","l","a","n","s">>
WIKI == <<"w","i","k","i">>
WORK == <<"w","o","r","k">>
WORK_ITEMS == <<"w","o","r","k","-","i","t","e","m","s">>

\* class Domain, in declaration order
Domain ==
    <<ADVANCED_SECURITY, PIPELINES, CORE, REPOSITORIES, SEARCH,
      TEST_PLANS, WIKI, WORK, WORK_ITEMS>>

DomainValues == {Domain[i] : i \in 1..Len(Domain)}

ALL_DOMAINS == <<"a","l","l">>

\* Python values that reach DomainsManager: None, a str, or a list of str
NoneValue == [kind |-> "none"]
StrValue(s) == [kind |-> "str", val |-> s]
ListValue(l) == [kind |-> "list", val |-> l]

\* Python truthiness of such a value ("not domains_input")
Falsy(v) ==
    \/ v.kind = "none"
    \/ v.kind = "str" /\ v.val = <<>>
    \/ v.kind = "list" /\ v.val = <<>>

\* DomainsManager._enable_all_domains
enable_all_domains(enabled) == enabled \cup DomainValues

\* the loop with the membership test lost: every name is added
validate_loop_unchecked(domains, enabled) ==
    enabled \cup {domains[i] : i \in 1..Len(domains)}

\* the for loop of DomainsManager._validate_and_add_domains
RECURSIVE validate_loop(_, _)
validate_loop(domains, enabled) ==
    IF domains = <<>> THEN enabled
    ELSE LET domain == Head(domains) IN
         IF domain \in DomainValues
         THEN validate_loop(Tail(domains), enabled \cup {domain})
         ELSE IF domain = ALL_DOMAINS
         THEN validate_loop(Tail(domains), enable_all_domains(enabled))
         ELSE validate_loop(Tail(domains), enabled)

\* DomainsManager._validate_and_add_domains
validate_and_add_domains(domains, enabled) ==
    LET after == validate_loop(domains, enabled) IN
    IF Cardinality(after) = 0 THEN enable_all_domains(after) ELSE after

\* the comprehension with .lower() lost
Normalize_no_lower(l) == [i \in 1..Len(l) |-> Strip(l[i])]

\* [d.strip().lower() for d in ...]
Normalize(l) == [i \in 1..Len(l) |-> Lower(Strip(l[i]))]

\* "ALL_DOMAINS in domains_input"
Contains(l, x) == \E i \in 1..Len(l) : l[i] = x

\* DomainsManager._handle_array_input
handle_array_input(l, enabled) ==
    IF Len(l) = 0 \/ Contains(l, ALL_DOMAINS)
    THEN enable_all_domains(enabled)
    ELSE validate_and_add_domains(Normalize(l), enabled)

\* the string branch with the empty-set fallback lost
handle_string_input_no_fallback(s, enabled) ==
    IF s = ALL_DOMAINS
    THEN enable_all_domains(enabled)
    ELSE validate_loop(Normalize(Split(s, ",")), enabled)

\* DomainsManager._handle_string_input
handle_string_input(s, enabled) ==
    IF s = ALL_DOMAINS
    THEN enable_all_domains(enabled)
    ELSE validate_and_add_domains(Normalize(Split(s, ",")), enabled)

\* DomainsManager._parse_domains
parse_domains(v, enabled) ==
    IF Falsy(v) THEN enable_all_domains(enabled)
    ELSE IF v.kind = "list" THEN handle_array_input(v.val, enabled)
    ELSE handle_string_input(v.val, enabled)

\* DomainsManager.is_domain_enabled
is_domain_enabled(enabled, domain) == domain \in enabled

(***************************************************************************)
(* Inputs of the DomainsManager machine                                    *)
(***************************************************************************)
MaxListLen == 2

\* "builds" is the unrecognized name the --domains help text itself uses
BUILDS == <<"b","u","i","l","d","s">>

Words == DomainValues \cup {ALL_DOMAINS, BUILDS, <<>>}

\* a word as typed: as is, in upper case, or padded with blanks
Variants(w) == {w, Upper(w), <<" ">> \o w \o <<" ", " ">>}

Entries == UNION {Variants(w) : w \in Words}

RECURSIVE SeqsUpTo(_, _)
SeqsUpTo(S, n) ==
    IF n = 0 THEN {<<>>}
    ELSE LET shorter == SeqsUpTo(S, n - 1) IN
         shorter \cup {Append(l, x) : l \in {m \in shorter : Len(m) = n - 1}, x \in S}

EntryLists == SeqsUpTo(Entries, MaxListLen)

DomainInputs ==
    {NoneValue}
      \cup {ListValue(l) : l \in EntryLists}
      \cup {StrValue(Join(l, ",")) : l \in EntryLists}

\* names is_domain_enabled is asked about
QueryNames == DomainValues \cup {ALL_DOMAINS, BUILDS, Upper(CORE)}

\* the machine at rest, for the specifications that do not run it
dmIdle ==
    /\ dm_input = NoneValue
    /\ dm_enabled = {}
    /\ dm_pc = "new"
    /\ dm_query = <<>>

dmInit ==
    /\ dm_input \in DomainInputs
    /\ dm_enabled = {}
    /\ dm_pc = "new"
    /\ dm_query = <<>>

\* DomainsManager.__init__
DomainsManagerInit ==
    /\ dm_pc = "new"
    /\ dm_enabled' = parse_domains(dm_input, {})
    /\ dm_pc' = "ready"
    /\ UNCHANGED <<dm_input, dm_query>>
    /\ UNCHANGED notDmVars

\* a caller asks is_domain_enabled(d)
IsDomainEnabled(d) ==
    /\ dm_pc = "ready"
    /\ dm_query' = <<d, is_domain_enabled(dm_enabled, d)>>
    /\ UNCHANGED <<dm_input, dm_enabled, dm_pc>>
    /\ UNCHANGED notDmVars

(***************************************************************************)
(* tools/__init__.py and the tool sets of the nine domain modules          *)
(***************************************************************************)
CoreTools ==
    {"core_list_project_teams", "core_list_projects", "core_get_identity_ids"}

WorkTools ==
    {"work_list_team_iterations", "work_create_iterations",
     "work_assign_iterations", "work_get_team_capacity"}

PipelineTools ==
    {"pipelines_get_build_definitions", "pipelines_get_builds",
     "pipelines_get_build_changes", "pipelines_get_build_log",
     "pipelines_get_build_status", "pipelines_run_pipeline"}

RepoTools ==
    {"repo_list_repos_by_project", "repo_get_repo_by_name_or_id",
     "repo_list_branches_by_repo", "repo_get_branch_by_name",
     "repo_create_branch", "repo_list_pull_requests_by_repo_or_project",
     "repo_get_pull_request_by_id", "repo_create_pull_request",
     "repo_update_pull_request", "repo_list_pull_request_threads",
     "repo_create_pull_request_thread", "repo_reply_to_comment",
     "repo_resolve_comment", "repo_search_commits",
     "repo_list_my_branches_by_repo",
     "repo_list_pull_request_thread_comments",
     "repo_update_pull_request_reviewers",
     "repo_list_pull_requests_by_commits"}

WorkItemTools ==
    {"wit_list_backlogs", "wit_my_work_items", "wit_get_work_item",
     "wit_create_work_item", "wit_update_work_item",
     "wit_get_work_items_batch_by_ids", "wit_list_work_item_comments",
     "wit_get_work_items_for_iteration", "wit_add_work_item_comment",
     "wit_work_items_link", "wit_work_item_unlink", "wit_get_work_item_type",
     "wit_get_query", "wit_get_query_results_by_id",
     "wit_update_work_items_batch", "wit_add_artifact_link",
     "wit_list_backlog_work_items", "wit_add_child_work_items",
     "wit_link_work_item_to_pull_request"}

WikiTools ==
    {"wiki_get_wiki", "wiki_list_wikis", "wiki_list_pages", "wiki_get_page",
     "wiki_get_page_content", "wiki_create_or_update_page"}

TestPlanTools ==
    {"testplan_list_test_plans", "testplan_create_test_plan",
     "testplan_create_test_suite", "testplan_create_test_case"}

SearchTools == {"search_code", "search_wiki", "search_workitem"}

AdvSecTools == {"advsec_get_alerts", "advsec_get_alert_details"}

\* the nine configure_if_domain_enabled calls of configure_all_tools, in
\* source order: the domain tested, the configuration function it guards,
\* and the tool functions that function decorates onto the server
ConfigureSteps ==
    <<[domain |-> CORE, fn |-> "configure_core_tools", tools |-> CoreTools],
      [domain |-> WORK, fn |-> "configure_work_tools", tools |-> WorkTools],
      [domain |-> PIPELINES, fn |-> "configure_pipeline_tools", tools |-> PipelineTools],
      [domain |-> REPOSITORIES, fn |-> "configure_repo_tools", tools |-> RepoTools],
      [domain |-> WORK_ITEMS, fn |-> "configure_work_item_tools", tools |-> WorkItemTools],
      [domain |-> WIKI, fn |-> "configure_wiki_tools", tools |-> WikiTools],
      [domain |-> TEST_PLANS, fn |-> "configure_test_plan_tools", tools |-> TestPlanTools],
      [domain |-> SEARCH, fn |-> "configure_search_tools", tools |-> SearchTools],
      [domain |-> ADVANCED_SECURITY, fn |-> "configure_advsec_tools", tools |-> AdvSecTools]>>

\* the guard lost: every configuration function runs
domain_is_enabled_always(domain, enabled) == TRUE

\* the guard of configure_if_domain_enabled
domain_is_enabled(domain, enabled) == domain \in enabled

cfgIdle ==
    /\ cfg_enabled = {}
    /\ cfg_idx = 0
    /\ cfg_calls = <<>>
    /\ cfg_tools = {}

\* enabled_domains is DomainsManager.get_enabled_domains(): never empty,
\* and any non-empty set of domain values can be selected
cfgInit ==
    /\ cfg_enabled \in (SUBSET DomainValues) \ {{}}
    /\ cfg_idx = 0
    /\ cfg_calls = <<>>
    /\ cfg_tools = {}

\* one configure_if_domain_enabled(domain, configure_fn) call
ConfigureIfDomainEnabled ==
    /\ cfg_idx < Len(ConfigureSteps)
    /\ LET step == ConfigureSteps[cfg_idx + 1] IN
       IF domain_is_enabled(step.domain, cfg_enabled)
       THEN /\ cfg_calls' = Append(cfg_calls, step.fn)
            /\ cfg_tools' = cfg_tools \cup step.tools
       ELSE UNCHANGED <<cfg_calls, cfg_tools>>
    /\ cfg_idx' = cfg_idx + 1
    /\ UNCHANGED cfg_enabled
    /\ UNCHANGED notCfgVars


(***************************************************************************)
(* main.py: run_http_server, its two tools and the PAT gate                *)
(***************************************************************************)
\* an Optional[str]: None, or a string
None == [some |-> FALSE, val |-> ""]
Some(v) == [some |-> TRUE, val |-> v]

\* Python truthiness of an Optional[str] ("not pat_token")
NotToken(t) == ~t.some \/ t.val = ""

PAT_HEADER == <<"x","-","a","z","u","r","e","-","d","e","v","o","p","s","-","p","a","t">>

\* the 401 body the gate sends
AUTH_REQUIRED_BODY ==
    "{\"error\": \"Authentication required\", \"message\": \"Please provide PAT token in X-Azure-DevOps-PAT header\"}"

\* dict(scope.get("headers", [])): keys in order of first appearance, each
\* with the value of its last appearance
RECURSIVE DictOf(_)
DictOf(pairs) ==
    IF pairs = <<>> THEN <<>>
    ELSE LET init == DictOf(SubSeq(pairs, 1, Len(pairs) - 1))
             last == pairs[Len(pairs)]
         IN IF \E i \in 1..Len(init) : init[i][1] = last[1]
            THEN [i \in 1..Len(init) |->
                    IF init[i][1] = last[1] THEN last ELSE init[i]]
            ELSE Append(init, last)

\* the header loop of custom_app: the first key that lower-cases to the
\* header name gives the token, and without one the token stays None
RECURSIVE FindPat(_)
FindPat(items) ==
    IF items = <<>> THEN None
    ELSE IF Lower(Head(items)[1]) = PAT_HEADER THEN Some(Head(items)[2])
    ELSE FindPat(Tail(items))

extract_pat(headers) == FindPat(DictOf(headers))

\* the condition as its comment words it: anything but a GET to the root
gate_rejects_unless_get_root(pat_token, path, method) ==
    NotToken(pat_token) /\ ~(path = "/" /\ method = "GET")

\* "if not pat_token and scope.get("path") != "/" and scope.get("method") != "GET""
gate_rejects(pat_token, path, method) ==
    NotToken(pat_token) /\ path # "/" /\ method # "GET"

MinPatLen == 10

\* run_http_server.test_connection, reading the shared token
test_connection(token, org) ==
    IF NotToken(token)
    THEN "Error: PAT token not provided in X-Azure-DevOps-PAT header"
    ELSE IF NotToken(token) \/ Len(token.val) < MinPatLen
    THEN "Error: Invalid PAT token format"
    ELSE "Connected to Azure DevOps organization: " \o org \o " (PAT authentication)"

\* the organization field filled with the organization's URL
get_server_info_org_url(org, domains) ==
    [name |-> "IDE DevOps MCP",
     organization |-> "https://dev.azure.com/" \o org,
     enabled_domains |-> domains,
     authentication |-> "PAT via X-Azure-DevOps-PAT header",
     org_url |-> "https://dev.azure.com/" \o org]

\* run_http_server.get_server_info
get_server_info(org, domains) ==
    [name |-> "IDE DevOps MCP",
     organization |-> org,
     enabled_domains |-> domains,
     authentication |-> "PAT via X-Azure-DevOps-PAT header",
     org_url |-> "https://dev.azure.com/" \o org]

\* the two functions run_http_server decorates with @mcp.tool()
HttpTools == {"test_connection", "get_server_info"}

\* the endpoint at which the streamable HTTP app takes tool calls
IsToolCall(scope) ==
    scope.type = "http" /\ scope.method = "POST" /\ scope.path = "/mcp"

(***************************************************************************)
(* Inputs of the HTTP machine                                              *)
(***************************************************************************)
NumRequests == 2

Slots == 1..NumRequests

\* (organization, domains) as main hands them over: the default domain
\* selection, and a selection of two domains
HttpArgs ==
    {<<"contoso", <<ALL_DOMAINS>>>>, <<"fabrikam", <<CORE, Upper(WIKI)>>>>}

PAT_HEADER_AS_SENT == <<"X","-","A","z","u","r","e","-","D","e","v","O","p","s","-","P","A","T">>

CONTENT_TYPE == <<"c","o","n","t","e","n","t","-","t","y","p","e">>

\* header lists a client sends: no PAT header, an empty one, one shorter
\* than ten characters, and a well-formed one after another header
HeaderLists ==
    {<<>>,
     <<<<PAT_HEADER, "">>>>,
     <<<<PAT_HEADER, "abc123pat">>>>,
     <<<<CONTENT_TYPE, "application/json">>, <<PAT_HEADER_AS_SENT, "pat-of-bob-000002">>>>}

HttpScopes ==
    [type : {"http"}, headers : HeaderLists, path : {"/", "/mcp"},
     method : {"GET", "POST"}]

\* the scope uvicorn sends that is not an HTTP request
OtherScopes ==
    {[type |-> "lifespan", headers |-> <<>>, path |-> "", method |-> ""]}

NoScope == [type |-> "", headers |-> <<>>, path |-> "", method |-> ""]

NoResult == [tool |-> "", seen |-> None, text |-> "", info |-> <<>>]

\* a free connection slot
FreeSlot ==
    [pc |-> "free", scope |-> NoScope, status |-> 0, body |-> "",
     forwards |-> 0, result |-> NoResult]

httpIdle ==
    /\ http_pc = "starting"
    /\ http_args = <<"", <<>>>>
    /\ organization = ""
    /\ enabled_domains = {}
    /\ mcp_tools = {}
    /\ current_pat_token = None
    /\ requests = [r \in Slots |-> FreeSlot]

httpInit ==
    /\ http_pc = "starting"
    /\ http_args \in HttpArgs
    /\ organization = ""
    /\ enabled_domains = {}
    /\ mcp_tools = {}
    /\ current_pat_token = None
    /\ requests = [r \in Slots |-> FreeSlot]

\* run_http_server up to uvicorn.run
RunHttpServer ==
    /\ http_pc = "starting"
    /\ organization' = http_args[1]
    /\ enabled_domains' = parse_domains(ListValue(http_args[2]), {})
    /\ mcp_tools' = HttpTools
    /\ current_pat_token' = None
    /\ http_pc' = "serving"
    /\ UNCHANGED <<http_args, requests>>
    /\ UNCHANGED notHttpVars

\* custom_app from its entry to its first await, for an HTTP scope
CustomAppHttp(r, scope) ==
    /\ http_pc = "serving"
    /\ requests[r].pc = "free"
    /\ scope.type = "http"
    /\ LET pat_token == extract_pat(scope.headers) IN
       /\ current_pat_token' = pat_token
       /\ IF gate_rejects(pat_token, scope.path, scope.method)
          THEN requests' = [requests EXCEPT ![r] =
                   [FreeSlot EXCEPT !.pc = "send_body", !.scope = scope,
                                    !.status = 401]]
          ELSE requests' = [requests EXCEPT ![r] =
                   [FreeSlot EXCEPT !.pc = "in_app", !.scope = scope,
                                    !.forwards = 1]]
    /\ UNCHANGED <<http_pc, http_args, organization, enabled_domains, mcp_tools>>
    /\ UNCHANGED notHttpVars

\* custom_app for any other scope type: straight to the base app
CustomAppOther(r, scope) ==
    /\ http_pc = "serving"
    /\ requests[r].pc = "free"
    /\ scope.type # "http"
    /\ requests' = [requests EXCEPT ![r] =
           [FreeSlot EXCEPT !.pc = "in_app", !.scope = scope, !.forwards = 1]]
    /\ UNCHANGED <<http_pc, http_args, organization, enabled_domains, mcp_tools,
                   current_pat_token>>
    /\ UNCHANGED notHttpVars

\* the second send of the 401 branch, then return
Send401Body(r) ==
    /\ requests[r].pc = "send_body"
    /\ requests' = [requests EXCEPT ![r].body = AUTH_REQUIRED_BODY,
                                    ![r].pc = "done"]
    /\ UNCHANGED <<http_pc, http_args, organization, enabled_domains, mcp_tools,
                   current_pat_token>>
    /\ UNCHANGED notHttpVars

\* the base app dispatches the request's tool call to test_connection
CallTestConnection(r) ==
    /\ requests[r].pc = "in_app"
    /\ IsToolCall(requests[r].scope)
    /\ "test_connection" \in mcp_tools
    /\ requests' = [requests EXCEPT ![r].pc = "done", ![r].status = 200,
           ![r].result = [tool |-> "test_connection",
                          seen |-> current_pat_token,
                          text |-> test_connection(current_pat_token, organization),
                          info |-> <<>>]]
    /\ UNCHANGED <<http_pc, http_args, organization, enabled_domains, mcp_tools,
                   current_pat_token>>
    /\ UNCHANGED notHttpVars

\* the base app dispatches the request's tool call to get_server_info
CallGetServerInfo(r) ==
    /\ requests[r].pc = "in_app"
    /\ IsToolCall(requests[r].scope)
    /\ "get_server_info" \in mcp_tools
    /\ requests' = [requests EXCEPT ![r].pc = "done", ![r].status = 200,
           ![r].result = [tool |-> "get_server_info",
                          seen |-> None,
                          text |-> "",
                          info |-> get_server_info(organization, enabled_domains)]]
    /\ UNCHANGED <<http_pc, http_args, organization, enabled_domains, mcp_tools,
                   current_pat_token>>
    /\ UNCHANGED notHttpVars

\* the base app finishes an exchange that calls no tool
BaseAppReturns(r) ==
    /\ requests[r].pc = "in_app"
    /\ requests' = [requests EXCEPT ![r].pc = "done"]
    /\ UNCHANGED <<http_pc, http_args, organization, enabled_domains, mcp_tools,
                   current_pat_token>>
    /\ UNCHANGED notHttpVars

\* the exchange is over and its connection slot is free again
ExchangeOver(r) ==
    /\ requests[r].pc = "done"
    /\ requests' = [requests EXCEPT ![r] = FreeSlot]
    /\ UNCHANGED <<http_pc, http_args, organization, enabled_domains, mcp_tools,
                   current_pat_token>>
    /\ UNCHANGED notHttpVars

(***************************************************************************)
(* tools/*.py: the tool bodies                                             *)
(***************************************************************************)
\* one "if <test> <variable>: return [TextContent(text=<text>)]" of a tool
\* body, with the key its variable was read from by arguments.get
Req(key, test, text) == [key |-> key, test |-> test, text |-> text]

\* the tool functions of core.py: the required-argument tests in source
\* order, the calls made after them, and the outer handler's text
CoreToolTable ==
    {[name |-> "core_list_project_teams",
      required |-> <<Req("project", "not", "Error: project parameter is required")>>,
      steps |-> <<"token_await", "connect", "client", "remote", "serialize">>,
      fallback |-> FALSE, err |-> "Error fetching project teams: "],
     [name |-> "core_list_projects",
      required |-> <<>>,
      steps |-> <<"token_await", "connect", "client", "remote", "serialize">>,
      fallback |-> FALSE, err |-> "Error fetching projects: "],
     [name |-> "core_get_identity_ids",
      required |-> <<Req("searchFilter", "not", "Error: searchFilter parameter is required")>>,
      steps |-> <<"respond">>,
      fallback |-> FALSE, err |-> "Error fetching identities: "]}

\* the tool functions of work.py: the required-argument tests in source
\* order, the calls made after them, and the outer handler's text
WorkToolTable ==
    {[name |-> "work_list_team_iterations",
      required |-> <<Req("project", "not", "Error: project parameter is required"),
                     Req("team", "not", "Error: team parameter is required")>>,
      steps |-> <<"token_call", "connect", "client", "remote", "serialize">>,
      fallback |-> TRUE, err |-> "Error fetching team iterations: "],
     [name |-> "work_create_iterations",
      required |-> <<Req("project", "not", "Error: project parameter is required"),
                     Req("name", "not", "Error: name parameter is required"),
                     Req("path", "not", "Error: path parameter is required")>>,
      steps |-> <<"token_call", "connect", "client", "remote", "serialize">>,
      fallback |-> TRUE, err |-> "Error creating iterations: "],
     [name |-> "work_assign_iterations",
      required |-> <<Req("project", "not", "Error: project parameter is required"),
                     Req("team", "not", "Error: team parameter is required"),
                     Req("iterationIds", "not", "Error: iterationIds parameter is required")>>,
      steps |-> <<"token_call", "connect", "client", "serialize">>,
      fallback |-> TRUE, err |-> "Error assigning iterations: "],
     [name |-> "work_get_team_capacity",
      required |-> <<Req("project", "not", "Error: project parameter is required"),
                     Req("team", "not", "Error: team parameter is required"),
                     Req("iterationId", "not", "Error: iterationId parameter is required")>>,
      steps |-> <<"token_call", "connect", "client", "remote", "serialize">>,
      fallback |-> TRUE, err |-> "Error getting team capacity: "]}

\* the tool functions of pipelines.py: the required-argument tests in source
\* order, the calls made after them, and the outer handler's text
PipelineToolTable ==
    {[name |-> "pipelines_get_build_definitions",
      required |-> <<Req("project", "not", "Error: project parameter is required")>>,
      steps |-> <<"token_call", "connect", "client", "remote", "serialize">>,
      fallback |-> FALSE, err |-> "Error fetching build definitions: "],
     [name |-> "pipelines_get_builds",
      required |-> <<Req("project", "not", "Error: project parameter is required")>>,
      steps |-> <<"token_call", "connect", "client", "remote", "serialize">>,
      fallback |-> TRUE, err |-> "Error fetching builds: "],
     [name |-> "pipelines_get_build_changes",
      required |-> <<Req("project", "not", "Error: project parameter is required"),
                     Req("buildId", "not", "Error: buildId parameter is required")>>,
      steps |-> <<"token_call", "connect", "client", "remote", "serialize">>,
      fallback |-> FALSE, err |-> "Error fetching build changes: "],
     [name |-> "pipelines_get_build_log",
      required |-> <<Req("project", "not", "Error: project parameter is required"),
                     Req("buildId", "not", "Error: buildId parameter is required"),
                     Req("logId", "not", "Error: logId parameter is required")>>,
      steps |-> <<"token_call", "connect", "client", "remote", "serialize">>,
      fallback |-> FALSE, err |-> "Error fetching build log: "],
     [name |-> "pipelines_get_build_status",
      required |-> <<Req("project", "not", "Error: project parameter is required"),
                     Req("buildId", "not", "Error: buildId parameter is required")>>,
      steps |-> <<"token_call", "connect", "client", "remote", "serialize">>,
      fallback |-> FALSE, err |-> "Error fetching build status: "],
     [name |-> "pipelines_run_pipeline",
      required |-> <<Req("project", "not", "Error: project parameter is required"),
                     Req("pipelineId", "not", "Error: pipelineId parameter is required")>>,
      steps |-> <<"token_call", "connect", "serialize">>,
      fallback |-> FALSE, err |-> "Error running pipeline: "]}

\* the tool functions of repositories.py: the required-argument tests in source
\* order, the calls made after them, and the outer handler's text
RepoToolTable ==
    {[name |-> "repo_list_repos_by_project",
      required |-> <<Req("project", "not", "Error: project parameter is required")>>,
      steps |-> <<"token_call", "connect", "client", "remote", "serialize">>,
      fallback |-> FALSE, err |-> "Error fetching repositories: "],
     [name |-> "repo_get_repo_by_name_or_id",
      required |-> <<Req("project", "not", "Error: project parameter is required"),
                     Req("repositoryId", "not", "Error: repositoryId parameter is required")>>,
      steps |-> <<"token_call", "connect", "client", "remote", "serialize">>,
      fallback |-> FALSE, err |-> "Error fetching repository: "],
     [name |-> "repo_list_branches_by_repo",
      required |-> <<Req("project", "not", "Error: project parameter is required"),
                     Req("repositoryId", "not", "Error: repositoryId parameter is required")>>,
      steps |-> <<"token_call", "connect", "client", "remote", "serialize">>,
      fallback |-> FALSE, err |-> "Error fetching branches: "],
     [name |-> "repo_get_branch_by_name",
      required |-> <<Req("project", "not", "Error: project parameter is required"),
                     Req("repositoryId", "not", "Error: repositoryId parameter is required"),
                     Req("branchName", "not", "Error: branchName parameter is required")>>,
      steps |-> <<"token_call", "connect", "client", "remote", "serialize">>,
      fallback |-> FALSE, err |-> "Error fetching branch: "],
     [name |-> "repo_create_branch",
      required |-> <<Req("project", "not", "Error: project parameter is required"),
                     Req("repositoryId", "not", "Error: repositoryId parameter is required"),
                     Req("branchName", "not", "Error: branchName parameter is required")>>,
      steps |-> <<"token_call", "connect", "client", "remote", "remote", "serialize">>,
      fallback |-> FALSE, err |-> "Error creating branch: "],
     [name |-> "repo_list_pull_requests_by_repo_or_project",
      required |-> <<Req("project", "not", "Error: project parameter is required")>>,
      steps |-> <<"token_call", "connect", "client", "remote", "serialize">>,
      fallback |-> FALSE, err |-> "Error fetching pull requests: "],
     [name |-> "repo_get_pull_request_by_id",
      required |-> <<Req("project", "not", "Error: project parameter is required"),
                     Req("repositoryId", "not", "Error: repositoryId parameter is required"),
                     Req("pullRequestId", "not", "Error: pullRequestId parameter is required")>>,
      steps |-> <<"token_call", "connect", "client", "remote", "serialize">>,
      fallback |-> FALSE, err |-> "Error fetching pull request: "],
     [name |-> "repo_create_pull_request",
      required |-> <<Req("project", "not", "Error: project parameter is required"),
                     Req("repositoryId", "not", "Error: repositoryId parameter is required"),
                     Req("title", "not", "Error: title parameter is required"),
                     Req("sourceBranch", "not", "Error: sourceBranch parameter is required")>>,
      steps |-> <<"token_call", "connect", "client", "remote", "serialize">>,
      fallback |-> FALSE, err |-> "Error creating pull request: "],
     [name |-> "repo_update_pull_request",
      required |-> <<Req("project", "not", "Error: project parameter is required"),
                     Req("repositoryId", "not", "Error: repositoryId parameter is required"),
                     Req("pullRequestId", "not", "Error: pullRequestId parameter is required")>>,
      steps |-> <<"token_call", "connect", "client", "remote", "serialize">>,
      fallback |-> FALSE, err |-> "Error updating pull request: "],
     [name |-> "repo_list_pull_request_threads",
      required |-> <<Req("project", "not", "Error: project parameter is required"),
                     Req("repositoryId", "not", "Error: repositoryId parameter is required"),
                     Req("pullRequestId", "not", "Error: pullRequestId parameter is required")>>,
      steps |-> <<"token_call", "connect", "client", "remote", "serialize">>,
      fallback |-> FALSE, err |-> "Error fetching pull request threads: "],
     [name |-> "repo_create_pull_request_thread",
      required |-> <<Req("project", "not", "Error: project parameter is required"),
                     Req("repositoryId", "not", "Error: repositoryId parameter is required"),
                     Req("pullRequestId", "not", "Error: pullRequestId parameter is required"),
                     Req("commentText", "not", "Error: commentText parameter is required")>>,
      steps |-> <<"token_call", "connect", "client", "remote", "serialize">>,
      fallback |-> FALSE, err |-> "Error creating pull request thread: "],
     [name |-> "repo_reply_to_comment",
      required |-> <<Req("project", "not", "Error: project parameter is required"),
                     Req("repositoryId", "not", "Error: repositoryId parameter is required"),
                     Req("pullRequestId", "not", "Error: pullRequestId parameter is required"),
                     Req("threadId", "not", "Error: threadId parameter is required"),
                     Req("commentText", "not", "Error: commentText parameter is required")>>,
      steps |-> <<"token_call", "connect", "client", "remote", "serialize">>,
      fallback |-> FALSE, err |-> "Error replying to comment: "],
     [name |-> "repo_resolve_comment",
      required |-> <<Req("project", "not", "Error: project parameter is required"),
                     Req("repositoryId", "not", "Error: repositoryId parameter is required"),
                     Req("pullRequestId", "not", "Error: pullRequestId parameter is required"),
                     Req("threadId", "not", "Error: threadId parameter is required")>>,
      steps |-> <<"token_call", "connect", "client", "remote", "serialize">>,
      fallback |-> FALSE, err |-> "Error resolving comment: "],
     [name |-> "repo_search_commits",
      required |-> <<Req("project", "not", "Error: project parameter is required"),
                     Req("repositoryId", "not", "Error: repositoryId parameter is required")>>,
      steps |-> <<"token_call", "connect", "client", "remote", "serialize">>,
      fallback |-> FALSE, err |-> "Error searching commits: "],
     [name |-> "repo_list_my_branches_by_repo",
      required |-> <<Req("project", "not", "Error: project parameter is required"),
                     Req("repositoryId", "not", "Error: repositoryId parameter is required")>>,
      steps |-> <<"token_call", "connect", "client", "remote", "serialize">>,
      fallback |-> FALSE, err |-> "Error fetching user branches: "],
     [name |-> "repo_list_pull_request_thread_comments",
      required |-> <<Req("project", "not", "Error: project parameter is required"),
                     Req("repositoryId", "not", "Error: repositoryId parameter is required"),
                     Req("pullRequestId", "not", "Error: pullRequestId parameter is required"),
                     Req("threadId", "not", "Error: threadId parameter is required")>>,
      steps |-> <<"token_call", "connect", "client", "remote", "serialize">>,
      fallback |-> FALSE, err |-> "Error fetching thread comments: "],
     [name |-> "repo_update_pull_request_reviewers",
      required |-> <<Req("project", "not", "Error: project parameter is required"),
                     Req("repositoryId", "not", "Error: repositoryId parameter is required"),
                     Req("pullRequestId", "not", "Error: pullRequestId parameter is required")>>,
      steps |-> <<"token_call", "connect", "client", "remote", "serialize">>,
      fallback |-> FALSE, err |-> "Error updating pull request reviewers: "],
     [name |-> "repo_list_pull_requests_by_commits",
      required |-> <<Req("project", "not", "Error: project parameter is required"),
                     Req("repositoryId", "not", "Error: repositoryId parameter is required"),
                     Req("commitIds", "not", "Error: commitIds parameter is required")>>,
      steps |-> <<"token_call", "connect", "client", "serialize">>,
      fallback |-> FALSE, err |-> "Error listing pull requests by commits: "]}

\* the tool functions of work_items.py: the required-argument tests in source
\* order, the calls made after them, and the outer handler's text
WorkItemToolTable ==
    {[name |-> "wit_list_backlogs",
      required |-> <<Req("project", "not", "Error: project parameter is required"),
                     Req("team", "not", "Error: team parameter is required")>>,
      steps |-> <<"token_call", "connect", "client", "remote", "serialize">>,
      fallback |-> TRUE, err |-> "Error listing backlogs: "],
     [name |-> "wit_my_work_items",
      required |-> <<>>,
      steps |-> <<"token_call", "connect", "client", "remote", "remote", "serialize">>,
      fallback |-> TRUE, err |-> "Error getting my work items: "],
     [name |-> "wit_get_work_item",
      required |-> <<Req("id", "not", "Error: id parameter is required")>>,
      steps |-> <<"token_call", "connect", "client", "remote", "serialize">>,
      fallback |-> TRUE, err |-> "Error getting work item: "],
     [name |-> "wit_create_work_item",
      required |-> <<Req("project", "not", "Error: project parameter is required"),
                     Req("type", "not", "Error: type parameter is required"),
                     Req("title", "not", "Error: title parameter is required")>>,
      steps |-> <<"token_call", "connect", "client", "remote", "serialize">>,
      fallback |-> TRUE, err |-> "Error creating work item: "],
     [name |-> "wit_update_work_item",
      required |-> <<Req("id", "not", "Error: id parameter is required"),
                     Req("fields", "not", "Error: fields parameter is required")>>,
      steps |-> <<"token_call", "connect", "client", "remote", "serialize">>,
      fallback |-> TRUE, err |-> "Error updating work item: "],
     [name |-> "wit_get_work_items_batch_by_ids",
      required |-> <<Req("ids", "not", "Error: ids parameter is required")>>,
      steps |-> <<"token_call", "connect", "client", "remote", "serialize">>,
      fallback |-> TRUE, err |-> "Error getting work items batch: "],
     [name |-> "wit_list_work_item_comments",
      required |-> <<Req("project", "not", "Error: project parameter is required"),
                     Req("workItemId", "not", "Error: workItemId parameter is required")>>,
      steps |-> <<"token_call", "connect", "client", "remote", "serialize">>,
      fallback |-> TRUE, err |-> "Error listing work item comments: "],
     [name |-> "wit_get_work_items_for_iteration",
      required |-> <<Req("project", "not", "Error: project parameter is required"),
                     Req("team", "not", "Error: team parameter is required"),
                     Req("iterationPath", "not", "Error: iterationPath parameter is required")>>,
      steps |-> <<"token_call", "connect", "client", "remote", "remote", "serialize">>,
      fallback |-> TRUE, err |-> "Error getting work items for iteration: "],
     [name |-> "wit_add_work_item_comment",
      required |-> <<Req("project", "not", "Error: project parameter is required"),
                     Req("workItemId", "not", "Error: workItemId parameter is required"),
                     Req("text", "not", "Error: text parameter is required")>>,
      steps |-> <<"token_call", "connect", "client", "remote", "serialize">>,
      fallback |-> TRUE, err |-> "Error adding work item comment: "],
     [name |-> "wit_work_items_link",
      required |-> <<Req("sourceId", "not", "Error: sourceId parameter is required"),
                     Req("targetId", "not", "Error: targetId parameter is required")>>,
      steps |-> <<"token_call", "connect", "client", "remote", "serialize">>,
      fallback |-> TRUE, err |-> "Error linking work items: "],
     [name |-> "wit_work_item_unlink",
      required |-> <<Req("sourceId", "not", "Error: sourceId parameter is required"),
                     Req("targetId", "not", "Error: targetId parameter is required")>>,
      steps |-> <<"token_call", "connect", "client", "remote", "remote", "serialize">>,
      fallback |-> TRUE, err |-> "Error unlinking work items: "],
     [name |-> "wit_get_work_item_type",
      required |-> <<Req("project", "not", "Error: project parameter is required"),
                     Req("type", "not", "Error: type parameter is required")>>,
      steps |-> <<"token_call", "connect", "client", "remote", "serialize">>,
      fallback |-> TRUE, err |-> "Error getting work item type: "],
     [name |-> "wit_get_query",
      required |-> <<Req("project", "not", "Error: project parameter is required"),
                     Req("queryId", "not", "Error: queryId parameter is required")>>,
      steps |-> <<"token_call", "connect", "client", "remote", "serialize">>,
      fallback |-> TRUE, err |-> "Error getting query: "],
     [name |-> "wit_get_query_results_by_id",
      required |-> <<Req("project", "not", "Error: project parameter is required"),
                     Req("queryId", "not", "Error: queryId parameter is required")>>,
      steps |-> <<"token_call", "connect", "client", "remote", "serialize">>,
      fallback |-> TRUE, err |-> "Error getting query results: "],
     [name |-> "wit_update_work_items_batch",
      required |-> <<Req("project", "not", "Error: project parameter is required"),
                     Req("workItems", "not", "Error: workItems parameter is required")>>,
      steps |-> <<"token_call", "connect", "client", "remote_each", "serialize">>,
      fallback |-> TRUE, err |-> "Error updating work items batch: "],
     [name |-> "wit_add_artifact_link",
      required |-> <<Req("workItemId", "not", "Error: workItemId parameter is required"),
                     Req("artifactUri", "not", "Error: artifactUri parameter is required")>>,
      steps |-> <<"token_call", "connect", "client", "remote", "serialize">>,
      fallback |-> TRUE, err |-> "Error adding artifact link: "],
     [name |-> "wit_list_backlog_work_items",
      required |-> <<Req("project", "not", "Error: project parameter is required"),
                     Req("team", "not", "Error: team parameter is required"),
                     Req("backlogId", "not", "Error: backlogId parameter is required")>>,
      steps |-> <<"token_call", "connect", "client", "remote", "serialize">>,
      fallback |-> TRUE, err |-> "Error listing backlog work items: "],
     [name |-> "wit_add_child_work_items",
      required |-> <<Req("parentId", "not", "Error: parentId parameter is required"),
                     Req("childIds", "not", "Error: childIds parameter is required")>>,
      steps |-> <<"token_call", "connect", "client", "remote", "serialize">>,
      fallback |-> TRUE, err |-> "Error adding child work items: "],
     [name |-> "wit_link_work_item_to_pull_request",
      required |-> <<Req("workItemId", "not", "Error: workItemId parameter is required"),
                     Req("pullRequestId", "not", "Error: pullRequestId parameter is required"),
                     Req("repositoryId", "not", "Error: repositoryId parameter is required"),
                     Req("project", "not", "Error: project parameter is required")>>,
      steps |-> <<"token_call", "connect", "client", "remote", "serialize">>,
      fallback |-> TRUE, err |-> "Error linking work item to pull request: "]}

\* the tool functions of wiki.py: the required-argument tests in source
\* order, the calls made after them, and the outer handler's text
WikiToolTable ==
    {[name |-> "wiki_get_wiki",
      required |-> <<Req("wikiIdentifier", "not", "Error: wikiIdentifier parameter is required")>>,
      steps |-> <<"token_call", "connect", "client", "remote", "serialize">>,
      fallback |-> TRUE, err |-> "Error fetching wiki: "],
     [name |-> "wiki_list_wikis",
      required |-> <<Req("project", "not", "Error: project parameter is required")>>,
      steps |-> <<"token_call", "connect", "client", "remote", "serialize">>,
      fallback |-> TRUE, err |-> "Error listing wikis: "],
     [name |-> "wiki_list_pages",
      required |-> <<Req("project", "not", "Error: project parameter is required"),
                     Req("wikiIdentifier", "not", "Error: wikiIdentifier parameter is required")>>,
      steps |-> <<"token_call", "connect", "client", "remote", "serialize">>,
      fallback |-> TRUE, err |-> "Error listing wiki pages: "],
     [name |-> "wiki_get_page",
      required |-> <<Req("project", "not", "Error: project parameter is required"),
                     Req("wikiIdentifier", "not", "Error: wikiIdentifier parameter is required"),
                     Req("pagePath", "not", "Error: pagePath parameter is required")>>,
      steps |-> <<"token_call", "connect", "client", "remote", "serialize">>,
      fallback |-> TRUE, err |-> "Error getting wiki page: "],
     [name |-> "wiki_get_page_content",
      required |-> <<Req("project", "not", "Error: project parameter is required"),
                     Req("wikiIdentifier", "not", "Error: wikiIdentifier parameter is required"),
                     Req("pagePath", "not", "Error: pagePath parameter is required")>>,
      steps |-> <<"token_call", "connect", "client", "remote", "serialize">>,
      fallback |-> TRUE, err |-> "Error getting wiki page content: "],
     [name |-> "wiki_create_or_update_page",
      required |-> <<Req("project", "not", "Error: project parameter is required"),
                     Req("wikiIdentifier", "not", "Error: wikiIdentifier parameter is required"),
                     Req("pagePath", "not", "Error: pagePath parameter is required"),
                     Req("content", "not", "Error: content parameter is required")>>,
      steps |-> <<"token_call", "connect", "client", "remote", "serialize">>,
      fallback |-> TRUE, err |-> "Error creating/updating wiki page: "]}

\* the tool functions of test_plans.py: the required-argument tests in source
\* order, the calls made after them, and the outer handler's text
TestPlanToolTable ==
    {[name |-> "testplan_list_test_plans",
      required |-> <<Req("project", "not", "Error: project parameter is required")>>,
      steps |-> <<"token_call", "connect", "client", "remote", "serialize">>,
      fallback |-> TRUE, err |-> "Error listing test plans: "],
     [name |-> "testplan_create_test_plan",
      required |-> <<Req("project", "not", "Error: project parameter is required"),
                     Req("name", "not", "Error: name parameter is required"),
                     Req("iteration", "not", "Error: iteration parameter is required")>>,
      steps |-> <<"token_call", "connect", "client", "remote", "serialize">>,
      fallback |-> TRUE, err |-> "Error creating test plan: "],
     [name |-> "testplan_create_test_suite",
      required |-> <<Req("project", "not", "Error: project parameter is required"),
                     Req("planId", "not", "Error: planId parameter is required"),
                     Req("suiteName", "not", "Error: suiteName parameter is required")>>,
      steps |-> <<"token_call", "connect", "client", "remote", "serialize">>,
      fallback |-> TRUE, err |-> "Error creating test suite: "],
     [name |-> "testplan_create_test_case",
      required |-> <<Req("project", "not", "Error: project parameter is required"),
                     Req("title", "not", "Error: title parameter is required")>>,
      steps |-> <<"token_call", "connect", "client", "remote", "serialize">>,
      fallback |-> TRUE, err |-> "Error creating test case: "]}

\* the tool functions of search.py: the required-argument tests in source
\* order, the calls made after them, and the outer handler's text
SearchToolTable ==
    {[name |-> "search_code",
      required |-> <<Req("searchText", "not", "Error: searchText parameter is required")>>,
      steps |-> <<"token_call", "post", "serialize">>,
      fallback |-> FALSE, err |-> "Error searching code: "],
     [name |-> "search_wiki",
      required |-> <<Req("searchText", "not", "Error: searchText parameter is required")>>,
      steps |-> <<"token_call", "post", "serialize">>,
      fallback |-> FALSE, err |-> "Error searching wiki: "],
     [name |-> "search_workitem",
      required |-> <<Req("searchText", "not", "Error: searchText parameter is required")>>,
      steps |-> <<"token_call", "post", "serialize">>,
      fallback |-> FALSE, err |-> "Error searching work items: "]}

\* the tool functions of advanced_security.py: the required-argument tests in source
\* order, the calls made after them, and the outer handler's text
AdvSecToolTable ==
    {[name |-> "advsec_get_alerts",
      required |-> <<Req("project", "not", "Error: project parameter is required"),
                     Req("repository", "not", "Error: repository parameter is required")>>,
      steps |-> <<"token_call", "connect", "serialize">>,
      fallback |-> TRUE, err |-> "Error fetching Advanced Security alerts: "],
     [name |-> "advsec_get_alert_details",
      required |-> <<Req("project", "not", "Error: project parameter is required"),
                     Req("repository", "not", "Error: repository parameter is required"),
                     Req("alertId", "is None", "Error: alertId parameter is required")>>,
      steps |-> <<"token_call", "connect", "serialize">>,
      fallback |-> TRUE, err |-> "Error fetching alert details: "]}

ToolTable ==
    CoreToolTable \cup WorkToolTable \cup PipelineToolTable \cup RepoToolTable
      \cup WorkItemToolTable \cup WikiToolTable \cup TestPlanToolTable
      \cup SearchToolTable \cup AdvSecToolTable

ToolNamed(name) == CHOOSE t \in ToolTable : t.name = name

\* what arguments.get yields for a key: nothing (the key is absent or
\* null), a falsy value ("", 0, [] or {}), or a truthy value
ArgValues == {"absent", "empty", "value"}

KeysOf(tool) == {tool.required[i].key : i \in 1..Len(tool.required)}

\* "not x" and "x is None" on what arguments.get yielded
fails_check(test, v) ==
    IF test = "not" THEN v \in {"absent", "empty"} ELSE v = "absent"

\* the first required-argument test that returns, 0 when none does
first_failed(tool, args) ==
    LET failing == {i \in 1..Len(tool.required) :
                      fails_check(tool.required[i].test, args[tool.required[i].key])}
    IN IF failing = {} THEN 0
       ELSE CHOOSE i \in failing : \A j \in failing : i <= j

\* TextContent(type="text", text=...)
TextContent(text) == [type |-> "text", text |-> text]

NoEffects == [token |-> 0, conn |-> 0, remote |-> 0]

\* a remote call issued a second time when the first attempt is over
effects_of_reissued(kind, e) ==
    IF kind \in {"token_call", "token_await"} THEN [e EXCEPT !.token = @ + 1]
    ELSE IF kind = "connect" THEN [e EXCEPT !.conn = @ + 1]
    ELSE IF kind \in {"remote", "remote_each", "post"}
    THEN [e EXCEPT !.remote = @ + 2]
    ELSE e

\* the calls a step makes
effects_of(kind, e) ==
    IF kind \in {"token_call", "token_await"} THEN [e EXCEPT !.token = @ + 1]
    ELSE IF kind = "connect" THEN [e EXCEPT !.conn = @ + 1]
    ELSE IF kind \in {"remote", "remote_each", "post"}
    THEN [e EXCEPT !.remote = @ + 1]
    ELSE e

\* a local variable that is not bound yet
Unbound == [kind |-> "unbound", val |-> ""]

\* token after a step: "await token_provider()" binds the string the
\* provider yields, "token_provider()" the coroutine object of the call
token_after(kind, token, yielded) ==
    IF kind = "token_await" THEN [kind |-> "str", val |-> yielded]
    ELSE IF kind = "token_call" THEN [kind |-> "coroutine", val |-> ""]
    ELSE token

\* BasicAuthentication('', token) and f"Bearer {token}": the value presented
credential_after(kind, token, credential) ==
    IF kind \in {"connect", "post"} THEN token ELSE credential

\* steps that can raise; building a literal answer cannot
RaisingSteps ==
    {"token_call", "token_await", "connect", "client", "remote", "remote_each",
     "post", "serialize"}

\* steps inside the inner try of the bodies that have one
InnerSteps == {"client", "remote", "remote_each", "serialize"}

\* the exception handler lost: the exception leaves the tool body
on_exception_propagates(tool, message) == [pc |-> "escaped", result |-> <<>>]

\* "except Exception as e: return [TextContent(text=f"Error ...: {str(e)}")]"
on_exception(tool, message) ==
    [pc |-> "returned", result |-> <<TextContent(tool.err \o message)>>]

\* json.dumps of what the remote operation returned
ResultText(tool) == "result of " \o tool.name

\* the informational or placeholder text of an early or inner-handler return
NoteText(tool) == "note from " \o tool.name

(***************************************************************************)
(* Inputs of the tool machine                                              *)
(***************************************************************************)
MaxInvocations == 2

MaxEntries == 2

ExceptionMessages == {"connection refused"}

\* the strings the token provider yields when it is awaited
ProviderTokens == {"token-1", "token-2"}

NoCall == [name |-> "", args |-> <<>>]

toolIdle ==
    /\ tool_pc = "idle"
    /\ tool_call = NoCall
    /\ tool_step = 0
    /\ tool_effects = NoEffects
    /\ tool_result = <<>>
    /\ tool_served = 0
    /\ tool_raised = 0
    /\ tool_entry = 0
    /\ tool_token = Unbound
    /\ tool_credential = Unbound

toolInit == toolIdle

\* a tool function is called: argument extraction and the required tests
InvokeTool(tool, args) ==
    /\ tool_pc = "idle"
    /\ tool_served < MaxInvocations
    /\ tool_call' = [name |-> tool.name, args |-> args]
    /\ tool_effects' = NoEffects
    /\ LET i == first_failed(tool, args) IN
       IF i # 0
       THEN /\ tool_pc' = "returned"
            /\ tool_step' = 0
            /\ tool_result' = <<TextContent(tool.required[i].text)>>
       ELSE /\ tool_pc' = "running"
            /\ tool_step' = 1
            /\ tool_result' = <<>>
    /\ tool_entry' = 0
    /\ tool_token' = Unbound
    /\ tool_credential' = Unbound
    /\ UNCHANGED <<tool_served, tool_raised>>
    /\ UNCHANGED notToolVars

\* the next call of the body succeeds; after the last one the body returns
StepSucceeds(yielded) ==
    /\ tool_pc = "running"
    /\ LET tool == ToolNamed(tool_call.name)
           kind == tool.steps[tool_step]
       IN /\ kind # "remote_each"
          /\ tool_effects' = effects_of(kind, tool_effects)
          /\ tool_token' = token_after(kind, tool_token, yielded)
          /\ tool_credential' = credential_after(kind, tool_token, tool_credential)
          /\ IF tool_step = Len(tool.steps)
             THEN /\ tool_pc' = "returned"
                  /\ tool_result' = <<TextContent(ResultText(tool))>>
                  /\ UNCHANGED tool_step
             ELSE /\ tool_step' = tool_step + 1
                  /\ UNCHANGED <<tool_pc, tool_result>>
    /\ UNCHANGED <<tool_call, tool_served, tool_raised, tool_entry>>
    /\ UNCHANGED notToolVars

\* one turn of the loop of wit_update_work_items_batch: the entry is
\* updated, or skipped for lack of an id or of fields
EntryHandled(skipped) ==
    /\ tool_pc = "running"
    /\ ToolNamed(tool_call.name).steps[tool_step] = "remote_each"
    /\ tool_entry < MaxEntries
    /\ tool_entry' = tool_entry + 1
    /\ tool_effects' = IF skipped THEN tool_effects
                       ELSE effects_of("remote_each", tool_effects)
    /\ UNCHANGED <<tool_pc, tool_call, tool_step, tool_result, tool_served,
                   tool_raised, tool_token, tool_credential>>
    /\ UNCHANGED notToolVars

\* the list is exhausted
LoopEnds ==
    /\ tool_pc = "running"
    /\ ToolNamed(tool_call.name).steps[tool_step] = "remote_each"
    /\ tool_entry >= 1
    /\ tool_step' = tool_step + 1
    /\ UNCHANGED <<tool_pc, tool_call, tool_effects, tool_result, tool_served,
                   tool_raised, tool_entry, tool_token, tool_credential>>
    /\ UNCHANGED notToolVars

\* the next call raises and the outer handler answers
StepRaises(message) ==
    /\ tool_pc = "running"
    /\ LET tool == ToolNamed(tool_call.name)
           kind == tool.steps[tool_step]
           handled == on_exception(tool, message)
       IN /\ kind \in RaisingSteps
          /\ kind = "remote_each" => tool_entry < MaxEntries
          /\ tool_effects' = effects_of(kind, tool_effects)
          /\ tool_entry' = IF kind = "remote_each" THEN tool_entry + 1
                                                   ELSE tool_entry
          /\ tool_pc' = handled.pc
          /\ tool_result' = handled.result
    /\ tool_raised' = tool_raised + 1
    /\ tool_credential' =
         credential_after(ToolNamed(tool_call.name).steps[tool_step],
                          tool_token, tool_credential)
    /\ UNCHANGED <<tool_call, tool_step, tool_served, tool_token>>
    /\ UNCHANGED notToolVars

\* the next call raises inside an inner try, whose handler answers with a
\* placeholder
StepFallsBack ==
    /\ tool_pc = "running"
    /\ LET tool == ToolNamed(tool_call.name)
           kind == tool.steps[tool_step]
       IN /\ tool.fallback
          /\ kind \in InnerSteps
          /\ kind = "remote_each" => tool_entry < MaxEntries
          /\ tool_effects' = effects_of(kind, tool_effects)
          /\ tool_entry' = IF kind = "remote_each" THEN tool_entry + 1
                                                   ELSE tool_entry
          /\ tool_pc' = "returned"
          /\ tool_result' = <<TextContent(NoteText(tool))>>
    /\ tool_raised' = tool_raised + 1
    /\ tool_credential' =
         credential_after(ToolNamed(tool_call.name).steps[tool_step],
                          tool_token, tool_credential)
    /\ UNCHANGED <<tool_call, tool_step, tool_served, tool_token>>
    /\ UNCHANGED notToolVars

\* the body returns an informational text instead of going on ("No teams
\* found", "Source branch ... not found")
ReturnsEarly ==
    /\ tool_pc = "running"
    /\ LET tool == ToolNamed(tool_call.name)
           kind == tool.steps[tool_step]
       IN /\ kind \in {"remote", "serialize"}
          /\ tool_effects.remote > 0
          /\ tool_result' = <<TextContent(NoteText(tool))>>
    /\ tool_pc' = "returned"
    /\ UNCHANGED <<tool_call, tool_step, tool_effects, tool_served, tool_raised,
                   tool_entry, tool_token, tool_credential>>
    /\ UNCHANGED notToolVars

\* the server sends the response and waits for the next invocation
ServerResponds ==
    /\ tool_pc = "returned"
    /\ tool_pc' = "idle"
    /\ tool_call' = NoCall
    /\ tool_step' = 0
    /\ tool_effects' = NoEffects
    /\ tool_result' = <<>>
    /\ tool_served' = tool_served + 1
    /\ tool_entry' = 0
    /\ tool_token' = Unbound
    /\ tool_credential' = Unbound
    /\ UNCHANGED tool_raised
    /\ UNCHANGED notToolVars

(***************************************************************************)
(* org_tenants.py: the organization-to-tenant cache                        *)
(***************************************************************************)
CACHE_TTL_MS == 7 * 24 * 60 * 60 * 1000

\* OrgTenantCacheEntry
OrgTenantCacheEntry(tenant_id, refreshed_on) ==
    [tenantId |-> tenant_id, refreshedOn |-> refreshed_on]

\* cache.get(org_name) when the organization has no entry
NoEntry == [some |-> FALSE, val |-> OrgTenantCacheEntry("", 0)]

\* the empty dict
EmptyCache == <<>>

\* load_cache: the entries of a file that parses, an empty cache otherwise
load_cache(file) == IF file.kind = "valid" THEN file.data ELSE EmptyCache

\* cache.get(org_name)
cache_get(cache, org_name) ==
    IF org_name \in DOMAIN cache
    THEN [some |-> TRUE, val |-> cache[org_name]]
    ELSE NoEntry

\* the assignment made on a dict that holds nothing else
cache_put_fresh(cache, org_name, entry) ==
    [o \in {org_name} |-> entry]

\* cache[org_name] = entry
cache_put(cache, org_name, entry) ==
    [o \in DOMAIN cache \cup {org_name} |->
        IF o = org_name THEN entry ELSE cache[o]]

\* the comparison written with >=
is_cache_entry_expired_at_ttl(entry, now) ==
    now - entry.refreshedOn >= CACHE_TTL_MS

\* is_cache_entry_expired, with time.time() * 1000 as now
is_cache_entry_expired(entry, now) ==
    now - entry.refreshedOn > CACHE_TTL_MS

\* the status of the response going unchecked
fetch_tenant_from_api_any_status(response) ==
    IF response.kind = "error" THEN [ok |-> FALSE, val |-> ""]
    ELSE IF NotToken(response.tenant) THEN [ok |-> FALSE, val |-> ""]
    ELSE [ok |-> TRUE, val |-> response.tenant.val]

\* fetch_tenant_from_api on what the HEAD request met: the tenant ID, or
\* the exception it raises
fetch_tenant_from_api(response) ==
    IF response.kind = "error" THEN [ok |-> FALSE, val |-> ""]
    ELSE IF response.status # 404 THEN [ok |-> FALSE, val |-> ""]
    ELSE IF NotToken(response.tenant) THEN [ok |-> FALSE, val |-> ""]
    ELSE [ok |-> TRUE, val |-> response.tenant.val]

\* the write merging the dict into what the file holds
try_saving_cache_merging(file, cache, outcome) ==
    IF outcome = "written"
    THEN [kind |-> "valid",
          data |-> [o \in DOMAIN load_cache(file) \cup DOMAIN cache |->
                       IF o \in DOMAIN cache THEN cache[o]
                       ELSE load_cache(file)[o]]]
    ELSE IF outcome = "truncated" THEN [kind |-> "malformed", data |-> EmptyCache]
    ELSE file

\* try_saving_cache: the file after the attempt
try_saving_cache(file, cache, outcome) ==
    IF outcome = "written" THEN [kind |-> "valid", data |-> cache]
    ELSE IF outcome = "truncated" THEN [kind |-> "malformed", data |-> EmptyCache]
    ELSE file

\* the handler forgetting the expired entry
on_lookup_failure_no_fallback(cached_entry) ==
    [pc |-> "returned", result |-> None]

\* "except Exception as e" of get_org_tenant
on_lookup_failure(cached_entry) ==
    IF cached_entry.some
    THEN [pc |-> "returned", result |-> Some(cached_entry.val.tenantId)]
    ELSE [pc |-> "returned", result |-> None]

(***************************************************************************)
(* Inputs of the tenant machine                                            *)
(***************************************************************************)
MaxTicks == 2

MaxTenantCalls == 2

Orgs == {"contoso", "fabrikam"}

TenantIds == {"tenant-a", "tenant-b"}

\* how far the clock moves between two observations
ClockSteps == {1, CACHE_TTL_MS - 1}

\* what the HEAD request to vssps.dev.azure.com meets
Responses ==
    {[kind |-> "error", status |-> 0, tenant |-> None]}
      \cup [kind : {"response"}, status : {404, 200},
            tenant : {None, Some("")} \cup {Some(t) : t \in TenantIds}]

NoResponse == [kind |-> "", status |-> 0, tenant |-> None]

SaveOutcomes == {"written", "unchanged", "truncated"}

\* the cache file an earlier run left behind
CacheFiles ==
    {[kind |-> "missing", data |-> EmptyCache],
     [kind |-> "malformed", data |-> EmptyCache],
     [kind |-> "valid",
      data |-> [o \in {"contoso"} |-> OrgTenantCacheEntry("tenant-a", 0)]],
     [kind |-> "valid",
      data |-> [o \in {"fabrikam"} |-> OrgTenantCacheEntry("tenant-b", 0)]]}

tnLocalsClear ==
    /\ tn_pc = "idle"
    /\ tn_org = ""
    /\ tn_cache = EmptyCache
    /\ tn_entry = NoEntry
    /\ tn_called_at = 0
    /\ tn_reads = 0
    /\ tn_writes = 0
    /\ tn_lookups = 0
    /\ tn_response = NoResponse
    /\ tn_result = None
    /\ tn_calls = 0

tnIdle ==
    /\ tn_now = 0
    /\ tn_ticks = 0
    /\ tn_file = [kind |-> "missing", data |-> EmptyCache]
    /\ tnLocalsClear

tnInit ==
    /\ tn_now = 0
    /\ tn_ticks = 0
    /\ tn_file \in CacheFiles
    /\ tnLocalsClear

\* time passes
Tick(d) ==
    /\ tn_ticks < MaxTicks
    /\ tn_ticks' = tn_ticks + 1
    /\ tn_now' = tn_now + d
    /\ UNCHANGED <<tn_file, tn_pc, tn_org, tn_cache, tn_entry, tn_called_at,
                   tn_reads, tn_writes, tn_lookups, tn_response, tn_result,
                   tn_calls>>
    /\ UNCHANGED notTenantVars

\* get_org_tenant from its entry to its return or to the HEAD request
GetOrgTenant(org_name) ==
    /\ tn_pc = "idle"
    /\ tn_calls < MaxTenantCalls
    /\ LET cache == load_cache(tn_file)
           cached_entry == cache_get(cache, org_name)
       IN /\ tn_cache' = cache
          /\ tn_entry' = cached_entry
          /\ IF cached_entry.some /\ ~is_cache_entry_expired(cached_entry.val, tn_now)
             THEN /\ tn_pc' = "returned"
                  /\ tn_result' = Some(cached_entry.val.tenantId)
             ELSE /\ tn_pc' = "fetching"
                  /\ tn_result' = None
    /\ tn_org' = org_name
    /\ tn_called_at' = tn_now
    /\ tn_reads' = 1
    /\ tn_writes' = 0
    /\ tn_lookups' = 0
    /\ tn_response' = NoResponse
    /\ UNCHANGED <<tn_now, tn_ticks, tn_file, tn_calls>>
    /\ UNCHANGED notTenantVars

\* the HEAD request ends, and get_org_tenant with it
FetchCompletes(response, outcome) ==
    /\ tn_pc = "fetching"
    /\ tn_lookups' = tn_lookups + 1
    /\ tn_response' = response
    /\ LET fetched == fetch_tenant_from_api(response)
           failed == on_lookup_failure(tn_entry)
           cache == cache_put(tn_cache, tn_org,
                              OrgTenantCacheEntry(fetched.val, tn_now))
       IN IF fetched.ok
          THEN /\ tn_cache' = cache
               /\ tn_file' = try_saving_cache(tn_file, cache, outcome)
               /\ tn_writes' = tn_writes + 1
               /\ tn_pc' = "returned"
               /\ tn_result' = Some(fetched.val)
          ELSE /\ tn_pc' = failed.pc
               /\ tn_result' = failed.result
               /\ UNCHANGED <<tn_cache, tn_file, tn_writes>>
    /\ UNCHANGED <<tn_now, tn_ticks, tn_org, tn_entry, tn_called_at, tn_reads,
                   tn_calls>>
    /\ UNCHANGED notTenantVars

\* the caller has the result; the locals are gone
TenantReturned ==
    /\ tn_pc = "returned"
    /\ tn_pc' = "idle"
    /\ tn_org' = ""
    /\ tn_cache' = EmptyCache
    /\ tn_entry' = NoEntry
    /\ tn_called_at' = 0
    /\ tn_reads' = 0
    /\ tn_writes' = 0
    /\ tn_lookups' = 0
    /\ tn_response' = NoResponse
    /\ tn_result' = None
    /\ tn_calls' = tn_calls + 1
    /\ UNCHANGED <<tn_now, tn_ticks, tn_file>>
    /\ UNCHANGED notTenantVars

(***************************************************************************)
(* auth.py: the authenticator factory                                      *)
(***************************************************************************)
DEFAULT_AUTHORITY == "https://login.microsoftonline.com/common"

ZERO_TENANT_ID == "00000000-0000-0000-0000-000000000000"

\* how an awaited call ends
Returned(v) == [kind |-> "returned", val |-> v]

Raised(message) == [kind |-> "raised", val |-> message]

NoOutcome == [kind |-> "", val |-> ""]

\* OAuthAuthenticator.__init__: the authority of the browser credential
authority_of(tenant_id) ==
    IF ~NotToken(tenant_id) /\ tenant_id.val # ZERO_TENANT_ID
    THEN "https://login.microsoftonline.com/" \o tenant_id.val
    ELSE DEFAULT_AUTHORITY

\* OAuthAuthenticator.get_token: credential is what the credential does,
\* raising or answering with a token that may be absent or empty
oauth_get_token(credential) ==
    IF credential.kind = "raises"
    THEN Raised("Failed to obtain Azure DevOps OAuth token: " \o credential.error)
    ELSE IF NotToken(credential.token)
    THEN Raised("Failed to obtain Azure DevOps OAuth token: Failed to obtain Azure DevOps OAuth token.")
    ELSE Returned(credential.token.val)

\* the azcli and env branch from credential.get_token on
chain_get_token(credential) ==
    IF credential.kind = "raises" \/ NotToken(credential.token)
    THEN Raised("Failed to obtain Azure DevOps token. Ensure you have Azure CLI logged in or use interactive authentication.")
    ELSE Returned(credential.token.val)

\* the pat branch without its test
get_token_pat_unchecked(auth_type, tenant_id, pat_token, credential) ==
    IF auth_type = "pat" THEN Returned(pat_token.val)
    ELSE chain_get_token(credential)

\* create_authenticator.get_token, awaited
get_token(auth_type, tenant_id, pat_token, credential) ==
    IF auth_type = "pat"
    THEN IF NotToken(pat_token)
         THEN Raised("PAT token is required for 'pat' authentication")
         ELSE Returned(pat_token.val)
    ELSE IF auth_type \in {"azcli", "env"}
    THEN chain_get_token(credential)
    ELSE oauth_get_token(credential)

(***************************************************************************)
(* Inputs of the authenticator machine                                     *)
(***************************************************************************)
MaxGetToken == 2

AuthTypes == {"pat", "azcli", "env", "interactive"}

TenantArgs == {None, Some(ZERO_TENANT_ID), Some("tenant-a")}

PatArgs == {None, Some(""), Some("abc123pat"), Some("pat-of-bob-000002")}

\* what the Azure credential does when asked for a token
Credentials ==
    {[kind |-> "raises", token |-> None, error |-> "authentication unavailable"],
     [kind |-> "answers", token |-> None, error |-> ""],
     [kind |-> "answers", token |-> Some(""), error |-> ""],
     [kind |-> "answers", token |-> Some("eyJ0eXAi"), error |-> ""]}

NoAuthArgs == [type |-> "", tenant |-> None, pat |-> None]

auIdle ==
    /\ au_pc = "new"
    /\ au_args = NoAuthArgs
    /\ au_env_dev = FALSE
    /\ au_authority = ""
    /\ au_invocations = 0
    /\ au_outcome = NoOutcome

auInit == auIdle

\* create_authenticator: builds the closure and returns it
CreateAuthenticator(auth_type, tenant_id, pat_token) ==
    /\ au_pc = "new"
    /\ au_pc' = "created"
    /\ au_args' = [type |-> auth_type, tenant |-> tenant_id, pat |-> pat_token]
    /\ UNCHANGED <<au_env_dev, au_authority, au_invocations, au_outcome>>
    /\ UNCHANGED notAuthVars

\* the returned function is invoked and awaited
AwaitGetToken(credential) ==
    /\ au_pc = "created"
    /\ au_invocations < MaxGetToken
    /\ au_invocations' = au_invocations + 1
    /\ au_outcome' = get_token(au_args.type, au_args.tenant, au_args.pat,
                               credential)
    /\ au_env_dev' = (au_env_dev \/ au_args.type = "azcli")
    /\ au_authority' = IF au_args.type \in {"pat", "azcli", "env"}
                       THEN au_authority
                       ELSE authority_of(au_args.tenant)
    /\ UNCHANGED <<au_pc, au_args>>
    /\ UNCHANGED notAuthVars

(***************************************************************************)
(* useragent.py: UserAgentComposer                                         *)
(***************************************************************************)
\* McpClientInfo, and the absent info
McpClientInfo(name, version) == [some |-> TRUE, name |-> name, version |-> version]

NoInfo == [some |-> FALSE, name |-> "", version |-> ""]

\* "info and info.name and info.version"
info_is_usable(info) == info.some /\ info.name # "" /\ info.version # ""

\* UserAgentComposer.__init__
initial_user_agent(package_version) ==
    "AzureDevOps.MCP/" \o package_version \o " (python)"

\* the method without its flag
append_mcp_client_info_unguarded(user_agent, appended, info) ==
    IF info_is_usable(info)
    THEN [user_agent |-> user_agent \o " " \o info.name \o "/" \o info.version,
          appended |-> TRUE]
    ELSE [user_agent |-> user_agent, appended |-> appended]

\* the method with the flag set by every call, usable info or not
append_mcp_client_info_consuming(user_agent, appended, info) ==
    IF ~appended /\ info_is_usable(info)
    THEN [user_agent |-> user_agent \o " " \o info.name \o "/" \o info.version,
          appended |-> TRUE]
    ELSE [user_agent |-> user_agent, appended |-> TRUE]

\* UserAgentComposer.append_mcp_client_info: the two fields after the call
append_mcp_client_info(user_agent, appended, info) ==
    IF ~appended /\ info_is_usable(info)
    THEN [user_agent |-> user_agent \o " " \o info.name \o "/" \o info.version,
          appended |-> TRUE]
    ELSE [user_agent |-> user_agent, appended |-> appended]

(***************************************************************************)
(* Inputs of the user-agent machine                                        *)
(***************************************************************************)
MaxAppends == 3

PackageVersions == {"1.0.0", "0.1.0"}

ClientInfos ==
    {NoInfo} \cup {McpClientInfo(n, v) : n \in {"", "vscode", "cursor"},
                                         v \in {"", "1.0", "2.1"}}

uaIdle ==
    /\ ua_pc = "new"
    /\ ua_user_agent = ""
    /\ ua_appended = FALSE
    /\ ua_last_info = NoInfo
    /\ ua_calls = 0
    /\ ua_package_version = ""
    /\ ua_infos = <<>>

uaInit == uaIdle

\* UserAgentComposer(package_version)
NewUserAgentComposer(package_version) ==
    /\ ua_pc = "new"
    /\ ua_pc' = "made"
    /\ ua_user_agent' = initial_user_agent(package_version)
    /\ ua_appended' = FALSE
    /\ ua_package_version' = package_version
    /\ UNCHANGED <<ua_last_info, ua_calls, ua_infos>>
    /\ UNCHANGED notUaVars

\* composer.append_mcp_client_info(info)
AppendMcpClientInfo(info) ==
    /\ ua_pc = "made"
    /\ ua_calls < MaxAppends
    /\ LET after == append_mcp_client_info(ua_user_agent, ua_appended, info)
       IN /\ ua_user_agent' = after.user_agent
          /\ ua_appended' = after.appended
    /\ ua_last_info' = info
    /\ ua_calls' = ua_calls + 1
    /\ ua_infos' = Append(ua_infos, info)
    /\ UNCHANGED <<ua_pc, ua_package_version>>
    /\ UNCHANGED notUaVars

(***************************************************************************)
(* main.py: the command line                                               *)
(***************************************************************************)
ORG_REQUIRED ==
    "Error: Organization name is required. Provide it as an argument or set AZURE_DEVOPS_ORG environment variable."

PAT_NEEDS_HTTP ==
    "Error: PAT authentication is only supported in HTTP mode. Use --mode http with --authentication pat."

\* the environment variable read first
org_name_env_first(org_arg, env_org) ==
    IF NotToken(env_org) THEN org_arg ELSE env_org

\* "organization or os.environ.get("AZURE_DEVOPS_ORG")"
org_name_of(org_arg, env_org) ==
    IF NotToken(org_arg) THEN env_org ELSE org_arg

\* the resolver asked whatever --tenant says
resolves_tenant_always(tenant) == TRUE

\* "get_org_tenant(organization) if not tenant else tenant": whether the
\* resolver is asked
resolves_tenant(tenant) == NotToken(tenant)

\* no call made yet
NoResolverCalls == [calls |-> 0, reads |-> 0, heads |-> 0]

NoAuthenticator == [made |-> 0, auth_type |-> "", tenant_id |-> None]

(***************************************************************************)
(* Inputs of the command-line machine                                      *)
(***************************************************************************)
\* the choices click accepts for --authentication and --mode
AuthChoices == {"interactive", "azcli", "env", "pat"}

ModeChoices == {"stdio", "http"}

OrgArgs == {None, Some(""), Some("contoso"), Some("fabrikam")}

CliArgs ==
    [organization : OrgArgs, env_org : OrgArgs,
     authentication : AuthChoices, mode : ModeChoices]

\* --tenant: not given, empty, given
TenantChoices == {None, Some(""), Some("tenant-x")}

\* what get_org_tenant returns
ResolverResults == {None, Some("tenant-a")}

\* HEAD requests one get_org_tenant call issues
ResolverLookups == {0, 1}

cliRest ==
    /\ cli_pc = "start"
    /\ cli_tenant_id = None
    /\ cli_resolver = NoResolverCalls
    /\ cli_auth = NoAuthenticator
    /\ cli_exit = -1
    /\ cli_org_name = None
    /\ cli_run_calls = 0
    /\ cli_server = "none"
    /\ cli_err = ""

cliIdle ==
    /\ cli_args = [organization |-> None, env_org |-> None,
                   authentication |-> "interactive", mode |-> "stdio"]
    /\ cli_tenant = None
    /\ cliRest

cliInit ==
    /\ cli_args \in CliArgs
    /\ cli_tenant \in TenantChoices
    /\ cliRest

\* main, from its entry to sys.exit(1) or to the call of run_server
Main ==
    /\ cli_pc = "start"
    /\ LET org_name == org_name_of(cli_args.organization, cli_args.env_org) IN
       IF NotToken(org_name)
       THEN /\ cli_err' = ORG_REQUIRED
            /\ cli_exit' = 1
            /\ cli_pc' = "exited"
            /\ UNCHANGED <<cli_org_name, cli_run_calls>>
       ELSE IF cli_args.authentication = "pat" /\ cli_args.mode # "http"
       THEN /\ cli_err' = PAT_NEEDS_HTTP
            /\ cli_exit' = 1
            /\ cli_pc' = "exited"
            /\ UNCHANGED <<cli_org_name, cli_run_calls>>
       ELSE /\ cli_org_name' = org_name
            /\ cli_run_calls' = cli_run_calls + 1
            /\ cli_pc' = "in_run_server"
            /\ UNCHANGED <<cli_err, cli_exit>>
    /\ UNCHANGED <<cli_args, cli_server, cli_tenant, cli_tenant_id, cli_resolver,
                   cli_auth>>
    /\ UNCHANGED notCliVars

\* run_server: run_http_server up to uvicorn.run, or run_stdio_server up
\* to its tenant_id assignment
RunServer ==
    /\ cli_pc = "in_run_server"
    /\ IF cli_args.mode = "http"
       THEN /\ cli_server' = "http"
            /\ cli_pc' = "serving"
       ELSE /\ cli_pc' = "stdio_tenant"
            /\ UNCHANGED cli_server
    /\ UNCHANGED <<cli_args, cli_exit, cli_org_name, cli_run_calls, cli_err,
                   cli_tenant, cli_tenant_id, cli_resolver, cli_auth>>
    /\ UNCHANGED notCliVars

\* run_stdio_server: "tenant_id = await get_org_tenant(organization) if not
\* tenant else tenant"
StdioTenant(resolved, lookups) ==
    /\ cli_pc = "stdio_tenant"
    /\ IF resolves_tenant(cli_tenant)
       THEN /\ cli_resolver' =
                 [calls |-> cli_resolver.calls + 1,
                  reads |-> cli_resolver.reads + 1,
                  heads |-> cli_resolver.heads + lookups]
            /\ cli_tenant_id' = resolved
       ELSE /\ cli_tenant_id' = cli_tenant
            /\ UNCHANGED cli_resolver
    /\ cli_pc' = "stdio_auth"
    /\ UNCHANGED <<cli_args, cli_exit, cli_org_name, cli_run_calls, cli_server,
                   cli_err, cli_tenant, cli_auth>>
    /\ UNCHANGED notCliVars

\* run_stdio_server: create_authenticator(authentication, tenant_id), then
\* the tools are configured and the stdio server runs
StdioCreatesAuthenticator ==
    /\ cli_pc = "stdio_auth"
    /\ cli_auth' = [made |-> cli_auth.made + 1,
                    auth_type |-> cli_args.authentication,
                    tenant_id |-> cli_tenant_id]
    /\ cli_server' = "stdio"
    /\ cli_pc' = "serving"
    /\ UNCHANGED <<cli_args, cli_exit, cli_org_name, cli_run_calls, cli_err,
                   cli_tenant, cli_tenant_id, cli_resolver>>
    /\ UNCHANGED notCliVars

\* run_http_server: uvicorn cannot be imported
UvicornMissing ==
    /\ cli_pc = "in_run_server"
    /\ cli_args.mode = "http"
    /\ cli_err' = "uvicorn is required for HTTP mode. Install it with: pip install uvicorn"
    /\ cli_exit' = 1
    /\ cli_pc' = "exited"
    /\ UNCHANGED <<cli_args, cli_org_name, cli_run_calls, cli_server,
                   cli_tenant, cli_tenant_id, cli_resolver, cli_auth>>
    /\ UNCHANGED notCliVars

\* the server returns and main with it
ServerEnds ==
    /\ cli_pc = "serving"
    /\ cli_exit' = 0
    /\ cli_pc' = "exited"
    /\ UNCHANGED <<cli_args, cli_org_name, cli_run_calls, cli_server, cli_err,
                   cli_tenant, cli_tenant_id, cli_resolver, cli_auth>>
    /\ UNCHANGED notCliVars

(***************************************************************************)
(* tools/work_items.py and tools/repositories.py: three tool bodies call   *)
(* by call                                                                 *)
(***************************************************************************)
\* the link_types dict of get_link_type_from_name, in source order
LinkTypeTable ==
    <<<<<<"p","a","r","e","n","t">>,
        <<"S","y","s","t","e","m",".","L","i","n","k","T","y","p","e","s",".","H","i","e","r","a","r","c","h","y","-","R","e","v","e","r","s","e">>>>,
      <<<<"c","h","i","l","d">>,
        <<"S","y","s","t","e","m",".","L","i","n","k","T","y","p","e","s",".","H","i","e","r","a","r","c","h","y","-","F","o","r","w","a","r","d">>>>,
      <<<<"d","u","p","l","i","c","a","t","e">>,
        <<"S","y","s","t","e","m",".","L","i","n","k","T","y","p","e","s",".","D","u","p","l","i","c","a","t","e","-","F","o","r","w","a","r","d">>>>,
      <<<<"d","u","p","l","i","c","a","t","e"," ","o","f">>,
        <<"S","y","s","t","e","m",".","L","i","n","k","T","y","p","e","s",".","D","u","p","l","i","c","a","t","e","-","R","e","v","e","r","s","e">>>>,
      <<<<"r","e","l","a","t","e","d">>,
        <<"S","y","s","t","e","m",".","L","i","n","k","T","y","p","e","s",".","R","e","l","a","t","e","d">>>>,
      <<<<"s","u","c","c","e","s","s","o","r">>,
        <<"S","y","s","t","e","m",".","L","i","n","k","T","y","p","e","s",".","D","e","p","e","n","d","e","n","c","y","-","F","o","r","w","a","r","d">>>>,
      <<<<"p","r","e","d","e","c","e","s","s","o","r">>,
        <<"S","y","s","t","e","m",".","L","i","n","k","T","y","p","e","s",".","D","e","p","e","n","d","e","n","c","y","-","R","e","v","e","r","s","e">>>>,
      <<<<"t","e","s","t","e","d"," ","b","y">>,
        <<"M","i","c","r","o","s","o","f","t",".","V","S","T","S",".","C","o","m","m","o","n",".","T","e","s","t","e","d","B","y","-","F","o","r","w","a","r","d">>>>,
      <<<<"t","e","s","t","s">>,
        <<"M","i","c","r","o","s","o","f","t",".","V","S","T","S",".","C","o","m","m","o","n",".","T","e","s","t","e","d","B","y","-","R","e","v","e","r","s","e">>>>,
      <<<<"a","f","f","e","c","t","s">>,
        <<"M","i","c","r","o","s","o","f","t",".","V","S","T","S",".","C","o","m","m","o","n",".","A","f","f","e","c","t","s","-","F","o","r","w","a","r","d">>>>,
      <<<<"a","f","f","e","c","t","e","d"," ","b","y">>,
        <<"M","i","c","r","o","s","o","f","t",".","V","S","T","S",".","C","o","m","m","o","n",".","A","f","f","e","c","t","s","-","R","e","v","e","r","s","e">>>>,
      <<<<"a","r","t","i","f","a","c","t">>,
        <<"A","r","t","i","f","a","c","t","L","i","n","k">>>>>>

\* returning the lower-cased name for names the table lacks
get_link_type_from_name_lowered(name) ==
    IF \E i \in 1..Len(LinkTypeTable) : LinkTypeTable[i][1] = Lower(name)
    THEN LinkTypeTable[CHOOSE i \in 1..Len(LinkTypeTable) :
                         LinkTypeTable[i][1] = Lower(name)][2]
    ELSE Lower(name)

\* get_link_type_from_name: link_types.get(name.lower(), name)
get_link_type_from_name(name) ==
    IF \E i \in 1..Len(LinkTypeTable) : LinkTypeTable[i][1] = Lower(name)
    THEN LinkTypeTable[CHOOSE i \in 1..Len(LinkTypeTable) :
                         LinkTypeTable[i][1] = Lower(name)][2]
    ELSE name

\* the org_url the tool functions close over
ORG_URL == "https://dev.azure.com/contoso"

\* f"{org_url}/_apis/wit/workItems/{target_id}"
work_item_url(org_url, id) == org_url \o "/_apis/wit/workItems/" \o id

\* arguments.get(key, default) on a mapping whose absent keys hold None
arg_or(value, default) == IF value.some THEN value ELSE Some(default)

\* str(i) for the indexes that occur
DecimalOf(i) == <<"0", "1", "2", "3", "4", "5", "6", "7", "8", "9">>[i + 1]

\* the scan taking the last match
relation_index_last(relations, target_url, rel) ==
    LET hits == {i \in 1..Len(relations) :
                   relations[i].url = target_url /\ relations[i].rel = rel}
    IN IF hits = {} THEN -1
       ELSE (CHOOSE i \in hits : \A j \in hits : i >= j) - 1

\* the for loop of wit_work_item_unlink: the index, from 0, of the first
\* relation with this URL and relation type, -1 when there is none
relation_index(relations, target_url, rel) ==
    LET hits == {i \in 1..Len(relations) :
                   relations[i].url = target_url /\ relations[i].rel = rel}
    IN IF hits = {} THEN -1
       ELSE (CHOOSE i \in hits : \A j \in hits : i <= j) - 1

\* the JSON-Patch document of wit_work_item_unlink
remove_patch(relation_index_) ==
    <<[op |-> "remove", path |-> "/relations/" \o DecimalOf(relation_index_)]>>

\* what the service does with a remove at /relations/<i>
without_relation(relations, i) ==
    [k \in 1..(Len(relations) - 1) |->
        IF k <= i THEN relations[k] ELSE relations[k + 1]]

\* an unassigned work_item, and one as get_work_item returned it
NoWorkItem == [some |-> FALSE, relations |-> <<>>]

WorkItem(relations) == [some |-> TRUE, relations |-> relations]

\* the index a remove patch names
patch_index(patch) ==
    CHOOSE i \in 0..9 : patch[1].path = "/relations/" \o DecimalOf(i)

NoLocals ==
    [link_type |-> <<>>, work_item |-> NoWorkItem, patch |-> <<>>,
     source_branch |-> <<>>, source_refs |-> <<>>, results |-> <<>>,
     handled |-> 0]

BodyError(tool_name, message) ==
    <<TextContent(ToolNamed(tool_name).err \o message)>>

\* the oldObjectId literal of repo_create_branch
ZERO_OBJECT_ID == "0000000000000000000000000000000000000000"

REFS_PREFIX == <<"r","e","f","s","/">>

HEADS_PREFIX == <<"r","e","f","s","/","h","e","a","d","s","/">>

MAIN == <<"m","a","i","n">>

\* str.startswith
StartsWith(s, prefix) ==
    /\ Len(s) >= Len(prefix)
    /\ SubSeq(s, 1, Len(prefix)) = prefix

\* f"refs/heads/{b}" if not b.startswith("refs/") else b
qualified_ref(b) == IF StartsWith(b, REFS_PREFIX) THEN b ELSE HEADS_PREFIX \o b

\* the update with the source's object ID on both sides
ref_update_from_source(new_ref_name, source_refs) ==
    [name |-> new_ref_name,
     oldObjectId |-> source_refs[1].object_id,
     newObjectId |-> source_refs[1].object_id]

\* the ref_update dict of repo_create_branch
ref_update_of(new_ref_name, source_refs) ==
    [name |-> new_ref_name,
     oldObjectId |-> ZERO_OBJECT_ID,
     newObjectId |-> source_refs[1].object_id]

\* the tools whose calls sit in an inner try with "except AttributeError"
CatchesAttributeError ==
    {"wit_work_items_link", "wit_work_item_unlink",
     "wit_update_work_items_batch"}

\* the handler that answers a call that raised
on_body_exception(tool_name, outcome) ==
    IF outcome = "attribute_error" /\ tool_name \in CatchesAttributeError
    THEN <<TextContent(NoteText(ToolNamed(tool_name)))>>
    ELSE BodyError(tool_name, "connection refused")

\* the patch with linkType passed on as the client sent it
add_patch_verbatim(link_type, org_url, target_id) ==
    <<[op |-> "add", path |-> "/relations/-",
       value |-> [rel |-> link_type,
                  url |-> work_item_url(org_url, target_id)]]>>

\* the JSON-Patch document of wit_work_items_link
add_patch(link_type, org_url, target_id) ==
    <<[op |-> "add", path |-> "/relations/-",
       value |-> [rel |-> get_link_type_from_name(link_type),
                  url |-> work_item_url(org_url, target_id)]]>>

\* the JSON-Patch document of one entry of wit_update_work_items_batch
replace_patch(fields) ==
    [k \in 1..Len(fields) |->
        [op |-> "replace", path |-> "/fields/" \o fields[k].name,
         value |-> fields[k].value]]

\* "if work_item_id and fields"
entry_is_updated(work_item) == ~NotToken(work_item.id) /\ work_item.fields # <<>>

\* json.dumps(results): each updated work item stands as its ID
RECURSIVE results_text(_)
results_text(results) ==
    IF results = <<>> THEN ""
    ELSE IF Len(results) = 1 THEN results[1]
    ELSE results[1] \o ", " \o results_text(Tail(results))

(***************************************************************************)
(* Inputs of the tool-body machine                                         *)
(***************************************************************************)
MaxRelations == 2

MaxBodyCalls == 2

WorkItemIds == {None, Some("7")}

REL_RELATED == LinkTypeTable[5][2]

REL_CHILD == LinkTypeTable[2][2]

CUSTOM_LINK == <<"C","u","s","t","o","m",".","L","i","n","k">>

\* an absent argument whose values are character sequences
NoName == [some |-> FALSE, val |-> <<>>]

\* linkType as clients send it: absent, a table name, one in another case,
\* one the table lacks
LinkTypeArgs ==
    {NoName, Some(LinkTypeTable[5][1]), Some(Upper(LinkTypeTable[2][1])),
     Some(CUSTOM_LINK)}

\* relations the source work item can have
RelationValues ==
    {[url |-> work_item_url(ORG_URL, "7"), rel |-> REL_RELATED],
     [url |-> work_item_url(ORG_URL, "7"), rel |-> REL_CHILD],
     [url |-> work_item_url(ORG_URL, "8"), rel |-> REL_RELATED],
     [url |-> work_item_url(ORG_URL, "7"), rel |-> CUSTOM_LINK]}

RelationLists == UNION {[1..n -> RelationValues] : n \in 0..MaxRelations}

CallOutcomes == {"ok", "raises", "attribute_error"}

TextArgs == {None, Some("x")}

BranchNameArgs == {NoName, Some(<<"f","e","a","t","u","r","e">>), Some(<<"r","e","f","s","/","h","e","a","d","s","/","h","o","t","f","i","x">>)}

SourceBranchArgs == {NoName, Some(<<"d","e","v","e","l","o","p">>), Some(<<"r","e","f","s","/","t","a","g","s","/","v","1">>)}

OBJECT_ID_A == "6f1ed002ab5595859014ebf0951522d9b5d4a2b1"

OBJECT_ID_B == "c3d4e5f60718293a4b5c6d7e8f9012a3b4c5d6e7"

\* what git_client.get_refs returns: no ref, one, or two of which the
\* first counts
RefResults ==
    {<<>>,
     <<[name |-> "first", object_id |-> OBJECT_ID_A]>>,
     <<[name |-> "first", object_id |-> OBJECT_ID_B],
       [name |-> "second", object_id |-> OBJECT_ID_A]>>}

\* linkType for wit_work_items_link: absent, each name of the table, and
\* the other cases of LinkTypeArgs
LinkNameArgs ==
    LinkTypeArgs \cup {Some(LinkTypeTable[i][1]) : i \in 1..Len(LinkTypeTable)}

\* entries of workItems: with and without an ID, with and without fields
BatchEntries ==
    [id : {None, Some("7"), Some("8")},
     fields : {<<>>, <<[name |-> "System.Title", value |-> "t"]>>}]

\* the workItems argument: absent, empty, or up to MaxEntries entries
WorkItemLists == UNION {[1..n -> BatchEntries] : n \in 0..MaxEntries}

\* no link made by the call before, and one made with these arguments
NoLink == [some |-> FALSE, args |-> <<>>, value |-> <<>>]

Linked(args, value) == [some |-> TRUE, args |-> args, value |-> value]

tbRest ==
    /\ tb_pc = "idle"
    /\ tb_tool = ""
    /\ tb_args = <<>>
    /\ tb_locals = NoLocals
    /\ tb_calls = <<>>
    /\ tb_result = <<>>
    /\ tb_done = 0
    /\ tb_linked = NoLink

tbIdle ==
    /\ tb_relations = <<>>
    /\ tbRest

tbInit ==
    /\ tb_relations \in RelationLists
    /\ tbRest

\* token_provider(), get_azure_devops_connection and the client
BodyConnects(outcome) ==
    /\ tb_pc = "connect"
    /\ IF outcome = "ok"
       THEN /\ tb_pc' = "first_call"
            /\ UNCHANGED tb_result
       ELSE /\ tb_pc' = "returned"
            /\ tb_result' = on_body_exception(tb_tool, outcome)
    /\ UNCHANGED <<tb_tool, tb_args, tb_locals, tb_calls, tb_relations, tb_done>>
    /\ UNCHANGED tb_linked
    /\ UNCHANGED notBodyVars

\* the server sends the response
BodyReturned ==
    /\ tb_pc = "returned"
    /\ tb_pc' = "idle"
    /\ tb_tool' = ""
    /\ tb_args' = <<>>
    /\ tb_locals' = NoLocals
    /\ tb_calls' = <<>>
    /\ tb_result' = <<>>
    /\ tb_done' = tb_done + 1
    /\ tb_linked' = IF tb_tool = "wit_work_items_link"
                       /\ tb_result = <<TextContent(ResultText(ToolNamed(tb_tool)))>>
                    THEN Linked(tb_args, tb_locals.patch[1].value)
                    ELSE NoLink
    /\ UNCHANGED tb_relations
    /\ UNCHANGED notBodyVars

\* wit_work_item_unlink from its entry to token_provider()
InvokeUnlink(source_id, target_id, link_type) ==
    /\ tb_pc = "idle"
    /\ tb_done < MaxBodyCalls
    /\ tb_tool' = "wit_work_item_unlink"
    /\ tb_args' = [sourceId |-> source_id, targetId |-> target_id,
                   linkType |-> link_type]
    /\ tb_locals' = [NoLocals EXCEPT !.link_type = arg_or(link_type, LinkTypeTable[5][1]).val]
    /\ tb_calls' = <<>>
    /\ IF NotToken(source_id)
       THEN /\ tb_pc' = "returned"
            /\ tb_result' = <<TextContent("Error: sourceId parameter is required")>>
       ELSE IF NotToken(target_id)
       THEN /\ tb_pc' = "returned"
            /\ tb_result' = <<TextContent("Error: targetId parameter is required")>>
       ELSE /\ tb_pc' = "connect"
            /\ tb_result' = <<>>
    /\ UNCHANGED <<tb_relations, tb_done>>
    /\ UNCHANGED tb_linked
    /\ UNCHANGED notBodyVars

\* wit_client.get_work_item and the scan of its relations
UnlinkGetsWorkItem(outcome) ==
    /\ tb_pc = "first_call"
    /\ tb_tool = "wit_work_item_unlink"
    /\ tb_calls' = Append(tb_calls,
          [op |-> "get_work_item", id |-> tb_args.sourceId.val,
           document |-> <<>>])
    /\ LET work_item == WorkItem(tb_relations)
           target_url == work_item_url(ORG_URL, tb_args.targetId.val)
           index == relation_index(work_item.relations, target_url,
                       get_link_type_from_name(tb_locals.link_type))
       IN IF outcome # "ok"
          THEN /\ tb_pc' = "returned"
               /\ tb_result' = on_body_exception(tb_tool, outcome)
               /\ UNCHANGED tb_locals
          ELSE IF work_item.relations = <<>>
          THEN /\ tb_pc' = "returned"
               /\ tb_result' = <<TextContent("No relations found on the source work item")>>
               /\ tb_locals' = [tb_locals EXCEPT !.work_item = work_item]
          ELSE IF index >= 0
          THEN /\ tb_pc' = "second_call"
               /\ tb_locals' = [tb_locals EXCEPT !.work_item = work_item,
                                                 !.patch = remove_patch(index)]
               /\ UNCHANGED tb_result
          ELSE /\ tb_pc' = "returned"
               /\ tb_result' = <<TextContent("Link not found between the specified work items")>>
               /\ tb_locals' = [tb_locals EXCEPT !.work_item = work_item]
    /\ UNCHANGED <<tb_tool, tb_args, tb_relations, tb_done>>
    /\ UNCHANGED tb_linked
    /\ UNCHANGED notBodyVars

\* wit_client.update_work_item(document=patch, id=source_id) of the unlink
UnlinkUpdates(outcome) ==
    /\ tb_pc = "second_call"
    /\ tb_tool = "wit_work_item_unlink"
    /\ tb_calls' = Append(tb_calls,
          [op |-> "update_work_item", id |-> tb_args.sourceId.val,
           document |-> tb_locals.patch])
    /\ tb_pc' = "returned"
    /\ IF outcome # "ok"
       THEN /\ tb_result' = on_body_exception(tb_tool, outcome)
            /\ UNCHANGED tb_relations
       ELSE /\ tb_result' = <<TextContent(ResultText(ToolNamed(tb_tool)))>>
            /\ tb_relations' = without_relation(tb_relations,
                                                patch_index(tb_locals.patch))
    /\ UNCHANGED <<tb_tool, tb_args, tb_locals, tb_done>>
    /\ UNCHANGED tb_linked
    /\ UNCHANGED notBodyVars

\* repo_create_branch from its entry to token_provider()
InvokeCreateBranch(project, repository_id, branch_name, source_branch) ==
    /\ tb_pc = "idle"
    /\ tb_done < MaxBodyCalls
    /\ tb_tool' = "repo_create_branch"
    /\ tb_args' = [project |-> project, repositoryId |-> repository_id,
                   branchName |-> branch_name, sourceBranch |-> source_branch]
    /\ tb_locals' = [NoLocals EXCEPT !.source_branch = arg_or(source_branch, MAIN).val]
    /\ tb_calls' = <<>>
    /\ IF NotToken(project)
       THEN /\ tb_pc' = "returned"
            /\ tb_result' = <<TextContent("Error: project parameter is required")>>
       ELSE IF NotToken(repository_id)
       THEN /\ tb_pc' = "returned"
            /\ tb_result' = <<TextContent("Error: repositoryId parameter is required")>>
       ELSE IF ~branch_name.some \/ branch_name.val = <<>>
       THEN /\ tb_pc' = "returned"
            /\ tb_result' = <<TextContent("Error: branchName parameter is required")>>
       ELSE /\ tb_pc' = "connect"
            /\ tb_result' = <<>>
    /\ UNCHANGED <<tb_relations, tb_done>>
    /\ UNCHANGED tb_linked
    /\ UNCHANGED notBodyVars

\* git_client.get_refs for the source branch and the test of its result
CreateBranchGetsRefs(outcome, refs) ==
    /\ tb_pc = "first_call"
    /\ tb_tool = "repo_create_branch"
    /\ tb_calls' = Append(tb_calls,
          [op |-> "get_refs", project |-> tb_args.project.val,
           repository_id |-> tb_args.repositoryId.val,
           filter |-> qualified_ref(tb_locals.source_branch)])
    /\ IF outcome # "ok"
       THEN /\ tb_pc' = "returned"
            /\ tb_result' = on_body_exception(tb_tool, outcome)
            /\ UNCHANGED tb_locals
       ELSE IF refs = <<>>
       THEN /\ tb_pc' = "returned"
            /\ tb_result' = <<TextContent("Source branch '...' not found")>>
            /\ tb_locals' = [tb_locals EXCEPT !.source_refs = refs]
       ELSE /\ tb_pc' = "second_call"
            /\ tb_locals' = [tb_locals EXCEPT !.source_refs = refs]
            /\ UNCHANGED tb_result
    /\ UNCHANGED <<tb_tool, tb_args, tb_relations, tb_done>>
    /\ UNCHANGED tb_linked
    /\ UNCHANGED notBodyVars

\* git_client.update_refs with the one ref_update
CreateBranchUpdatesRefs(outcome) ==
    /\ tb_pc = "second_call"
    /\ tb_tool = "repo_create_branch"
    /\ tb_calls' = Append(tb_calls,
          [op |-> "update_refs", project |-> tb_args.project.val,
           repository_id |-> tb_args.repositoryId.val,
           ref_updates |-> <<ref_update_of(qualified_ref(tb_args.branchName.val),
                                           tb_locals.source_refs)>>])
    /\ tb_pc' = "returned"
    /\ tb_result' = IF outcome # "ok"
                    THEN on_body_exception(tb_tool, outcome)
                    ELSE <<TextContent(ResultText(ToolNamed(tb_tool)))>>
    /\ UNCHANGED <<tb_tool, tb_args, tb_locals, tb_relations, tb_done>>
    /\ UNCHANGED tb_linked
    /\ UNCHANGED notBodyVars

\* wit_work_items_link from its entry to token_provider()
InvokeLink(source_id, target_id, link_type) ==
    /\ tb_pc = "idle"
    /\ tb_done < MaxBodyCalls
    /\ tb_tool' = "wit_work_items_link"
    /\ tb_args' = [sourceId |-> source_id, targetId |-> target_id,
                   linkType |-> link_type]
    /\ tb_locals' = [NoLocals EXCEPT !.link_type = arg_or(link_type, LinkTypeTable[5][1]).val]
    /\ tb_calls' = <<>>
    /\ IF NotToken(source_id)
       THEN /\ tb_pc' = "returned"
            /\ tb_result' = <<TextContent("Error: sourceId parameter is required")>>
       ELSE IF NotToken(target_id)
       THEN /\ tb_pc' = "returned"
            /\ tb_result' = <<TextContent("Error: targetId parameter is required")>>
       ELSE /\ tb_pc' = "connect"
            /\ tb_result' = <<>>
    /\ UNCHANGED <<tb_relations, tb_done>>
    /\ UNCHANGED tb_linked
    /\ UNCHANGED notBodyVars

\* wit_client.update_work_item(document=patch, id=source_id) of the link
LinkUpdates(outcome) ==
    /\ tb_pc = "first_call"
    /\ tb_tool = "wit_work_items_link"
    /\ LET patch == add_patch(tb_locals.link_type, ORG_URL, tb_args.targetId.val)
       IN /\ tb_calls' = Append(tb_calls,
                [op |-> "update_work_item", id |-> tb_args.sourceId.val,
                 document |-> patch])
          /\ tb_locals' = [tb_locals EXCEPT !.patch = patch]
          /\ IF outcome # "ok"
             THEN /\ tb_result' = on_body_exception(tb_tool, outcome)
                  /\ UNCHANGED tb_relations
             ELSE /\ tb_result' = <<TextContent(ResultText(ToolNamed(tb_tool)))>>
                  /\ tb_relations' = Append(tb_relations, patch[1].value)
    /\ tb_pc' = "returned"
    /\ UNCHANGED <<tb_tool, tb_args, tb_done>>
    /\ UNCHANGED tb_linked
    /\ UNCHANGED notBodyVars

\* wit_update_work_items_batch from its entry to token_provider()
InvokeBatch(project, work_items) ==
    /\ tb_pc = "idle"
    /\ tb_done < MaxBodyCalls
    /\ tb_tool' = "wit_update_work_items_batch"
    /\ tb_args' = [project |-> project, workItems |-> work_items]
    /\ tb_locals' = NoLocals
    /\ tb_calls' = <<>>
    /\ IF NotToken(project)
       THEN /\ tb_pc' = "returned"
            /\ tb_result' = <<TextContent("Error: project parameter is required")>>
       ELSE IF work_items = <<>>
       THEN /\ tb_pc' = "returned"
            /\ tb_result' = <<TextContent("Error: workItems parameter is required")>>
       ELSE /\ tb_pc' = "connect"
            /\ tb_result' = <<>>
    /\ UNCHANGED <<tb_relations, tb_done>>
    /\ UNCHANGED tb_linked
    /\ UNCHANGED notBodyVars

\* one turn of "for work_item in work_items"
BatchHandlesEntry(outcome) ==
    /\ tb_pc = "first_call"
    /\ tb_tool = "wit_update_work_items_batch"
    /\ tb_locals.handled < Len(tb_args.workItems)
    /\ LET work_item == tb_args.workItems[tb_locals.handled + 1]
       IN IF entry_is_updated(work_item)
          THEN /\ tb_calls' = Append(tb_calls,
                     [op |-> "update_work_item", id |-> work_item.id.val,
                      document |-> replace_patch(work_item.fields)])
               /\ IF outcome = "ok"
                  THEN /\ tb_locals' =
                            [tb_locals EXCEPT
                               !.results = Append(@, work_item.id.val),
                               !.handled = @ + 1]
                       /\ UNCHANGED <<tb_pc, tb_result>>
                  ELSE /\ tb_pc' = "returned"
                       /\ tb_result' = on_body_exception(tb_tool, outcome)
                       /\ UNCHANGED tb_locals
          ELSE /\ outcome = "ok"
               /\ tb_locals' = [tb_locals EXCEPT !.handled = @ + 1]
               /\ UNCHANGED <<tb_pc, tb_result, tb_calls>>
    /\ UNCHANGED <<tb_tool, tb_args, tb_relations, tb_done>>
    /\ UNCHANGED tb_linked
    /\ UNCHANGED notBodyVars

\* the loop is over: json.dumps(results) is returned
BatchReturns ==
    /\ tb_pc = "first_call"
    /\ tb_tool = "wit_update_work_items_batch"
    /\ tb_locals.handled = Len(tb_args.workItems)
    /\ tb_pc' = "returned"
    /\ tb_result' = <<TextContent("[" \o results_text(tb_locals.results) \o "]")>>
    /\ UNCHANGED <<tb_tool, tb_args, tb_locals, tb_calls, tb_relations, tb_done>>
    /\ UNCHANGED tb_linked
    /\ UNCHANGED notBodyVars

(***************************************************************************)
(* org_tenants.py: two server instances sharing the cache file             *)
(***************************************************************************)
Instances == {1, 2}

\* the clock when an earlier run's entries are fresh, and when they expired
RaceClocks == {1, CACHE_TTL_MS + 1}

rcIdle ==
    /\ rc_now = 0
    /\ rc_file = [kind |-> "missing", data |-> EmptyCache]
    /\ rc_pc = [p \in Instances |-> "idle"]
    /\ rc_org = [p \in Instances |-> ""]
    /\ rc_cache = [p \in Instances |-> EmptyCache]
    /\ rc_entry = [p \in Instances |-> NoEntry]
    /\ rc_result = [p \in Instances |-> None]
    /\ rc_log = <<>>

rcInit ==
    /\ rc_now \in RaceClocks
    /\ rc_file \in CacheFiles
    /\ rc_pc = [p \in Instances |-> "idle"]
    /\ rc_org = [p \in Instances |-> ""]
    /\ rc_cache = [p \in Instances |-> EmptyCache]
    /\ rc_entry = [p \in Instances |-> NoEntry]
    /\ rc_result = [p \in Instances |-> None]
    /\ rc_log = <<>>

\* instance p enters get_org_tenant: load_cache, then the early return or
\* the HEAD request
InstanceLoads(p, org_name) ==
    /\ rc_pc[p] = "idle"
    /\ LET cache == load_cache(rc_file)
           cached_entry == cache_get(cache, org_name)
       IN /\ rc_cache' = [rc_cache EXCEPT ![p] = cache]
          /\ rc_entry' = [rc_entry EXCEPT ![p] = cached_entry]
          /\ IF cached_entry.some /\ ~is_cache_entry_expired(cached_entry.val, rc_now)
             THEN /\ rc_pc' = [rc_pc EXCEPT ![p] = "returned"]
                  /\ rc_result' =
                       [rc_result EXCEPT ![p] = Some(cached_entry.val.tenantId)]
             ELSE /\ rc_pc' = [rc_pc EXCEPT ![p] = "fetching"]
                  /\ UNCHANGED rc_result
    /\ rc_org' = [rc_org EXCEPT ![p] = org_name]
    /\ rc_log' = Append(rc_log, <<p, "load", "">>)
    /\ UNCHANGED <<rc_now, rc_file>>
    /\ UNCHANGED notRaceVars

\* the HEAD request of instance p ends: the entry is put into its dict, or
\* the except branch returns
InstanceFetchCompletes(p, response) ==
    /\ rc_pc[p] = "fetching"
    /\ LET fetched == fetch_tenant_from_api(response)
           failed == on_lookup_failure(rc_entry[p])
       IN IF fetched.ok
          THEN /\ rc_cache' = [rc_cache EXCEPT ![p] =
                    cache_put(rc_cache[p], rc_org[p],
                              OrgTenantCacheEntry(fetched.val, rc_now))]
               /\ rc_pc' = [rc_pc EXCEPT ![p] = "saving"]
               /\ rc_result' = [rc_result EXCEPT ![p] = Some(fetched.val)]
          ELSE /\ rc_pc' = [rc_pc EXCEPT ![p] = failed.pc]
               /\ rc_result' = [rc_result EXCEPT ![p] = failed.result]
               /\ UNCHANGED rc_cache
    /\ UNCHANGED <<rc_now, rc_file, rc_org, rc_entry, rc_log>>
    /\ UNCHANGED notRaceVars

\* try_saving_cache of instance p, then its return
InstanceSaves(p, outcome) ==
    /\ rc_pc[p] = "saving"
    /\ rc_file' = try_saving_cache(rc_file, rc_cache[p], outcome)
    /\ rc_pc' = [rc_pc EXCEPT ![p] = "returned"]
    /\ rc_log' = Append(rc_log, <<p, "save", outcome>>)
    /\ UNCHANGED <<rc_now, rc_org, rc_cache, rc_entry, rc_result>>
    /\ UNCHANGED notRaceVars

(***************************************************************************)
(* robust_mcp_server.py: the launcher with a fallback error server         *)
(***************************************************************************)
\* log: the line appended to startup_logs
log(logs, message) == Append(logs, "[MCP-ROBUST] " \o message)

\* int(os.getenv("PORT", "8000"))
port_of(env_port) ==
    IF ~env_port.some THEN [ok |-> TRUE, num |-> 8000, text |-> "8000"]
    ELSE IF env_port.val = "9000" THEN [ok |-> TRUE, num |-> 9000, text |-> "9000"]
    ELSE [ok |-> FALSE, num |-> 0, text |-> env_port.val]

\* the response of do_GET without the accumulated log lines
error_response_without_logs(startup_error, startup_logs) ==
    [status |-> 500, error |-> "MCP Server startup failed",
     startup_error |-> IF startup_error.some THEN startup_error.val
                       ELSE "Unknown error",
     startup_logs |-> <<>>]

\* ErrorHandler.do_GET: the status and the JSON body
error_response(startup_error, startup_logs) ==
    [status |-> 500, error |-> "MCP Server startup failed",
     startup_error |-> IF startup_error.some THEN startup_error.val
                       ELSE "Unknown error",
     startup_logs |-> startup_logs]

\* a request and what the error server answered it with
Exchange(method, path, answer) ==
    [method |-> method, path |-> path, answer |-> answer]

NoAnswer == [status |-> 0, error |-> "", startup_error |-> "",
             startup_logs |-> <<>>]

NoResponseYet == Exchange("", "", NoAnswer)

\* how the start-up ends once the organization is known: an import fails,
\* a later call raises, uvicorn leaves through sys.exit, or uvicorn serves
StartupOutcomes == {"import_error", "raises", "system_exit", "serves"}

\* the message of the exception of an outcome
startup_message(outcome) ==
    IF outcome = "import_error" THEN "No module named 'mcp'"
    ELSE "startup failed"

RobustOrgs == {None, Some(""), Some("contoso")}

RobustPorts == {None, Some("9000"), Some("abc")}

\* request paths the error server is asked for
GetPaths == {"/", "/mcp"}

OtherMethods == {"POST"}

MaxGets == 2

rbRest ==
    /\ rb_pc = "start"
    /\ rb_port = 0
    /\ rb_startup_error = None
    /\ rb_startup_logs = <<>>
    /\ rb_bound = 0
    /\ rb_response = NoResponseYet
    /\ rb_gets = 0

rbIdle ==
    /\ rb_env = [org |-> None, port |-> None]
    /\ rbRest

rbInit ==
    /\ rb_env \in [org : RobustOrgs, port : RobustPorts]
    /\ rbRest

\* main up to the call of start_mcp_server
RobustMain ==
    /\ rb_pc = "start"
    /\ rb_startup_logs' =
         log(rb_startup_logs, "=== Azure DevOps MCP Server (Robust) ===")
    /\ IF port_of(rb_env.port).ok
       THEN /\ rb_port' = port_of(rb_env.port).num
            /\ rb_pc' = "starting"
       ELSE /\ rb_pc' = "crashed"
            /\ UNCHANGED rb_port
    /\ UNCHANGED <<rb_env, rb_startup_error, rb_bound, rb_response, rb_gets>>
    /\ UNCHANGED notRobustVars

\* start_mcp_server: it serves, leaves through sys.exit, or records the
\* exception and raises it again
StartMcpServer(outcome) ==
    /\ rb_pc = "starting"
    /\ LET attempted == log(rb_startup_logs, "Attempting to start MCP server...")
           known == log(log(attempted, "Organization: " \o rb_env.org.val),
                        "Port: " \o port_of(rb_env.port).text)
           failed(logs, message) ==
               log(log(logs, "MCP server startup failed: " \o message),
                   "Full traceback: Traceback (most recent call last) ...")
       IN IF NotToken(rb_env.org)
          THEN /\ outcome = "raises"
               /\ rb_startup_error' =
                    Some("AZURE_DEVOPS_ORG environment variable is required")
               /\ rb_startup_logs' =
                    failed(attempted,
                           "AZURE_DEVOPS_ORG environment variable is required")
               /\ rb_pc' = "failed"
               /\ UNCHANGED rb_bound
          ELSE IF outcome \in {"import_error", "raises"}
          THEN /\ rb_startup_error' = Some(startup_message(outcome))
               /\ rb_startup_logs' =
                    failed(log(known, "Importing MCP modules..."),
                           startup_message(outcome))
               /\ rb_pc' = "failed"
               /\ UNCHANGED rb_bound
          ELSE /\ rb_startup_logs' =
                    log(log(log(log(known, "Importing MCP modules..."),
                                "Creating MCP server..."),
                            "Creating ASGI app..."),
                        "Starting uvicorn on 0.0.0.0:" \o port_of(rb_env.port).text)
               /\ UNCHANGED rb_startup_error
               /\ IF outcome = "serves"
                  THEN rb_pc' = "serving_mcp" /\ rb_bound' = rb_port
                  ELSE rb_pc' = "exited" /\ UNCHANGED rb_bound
    /\ UNCHANGED <<rb_env, rb_port, rb_response, rb_gets>>
    /\ UNCHANGED notRobustVars

\* the except branch of main and start_error_server up to serve_forever
StartErrorServer(binds) ==
    /\ rb_pc = "failed"
    /\ LET logs ==
             log(log(log(rb_startup_logs,
                         "MCP server failed to start: " \o rb_startup_error.val),
                     "Starting fallback error server..."),
                 "Starting error server on port " \o port_of(rb_env.port).text)
       IN IF binds
          THEN /\ rb_startup_logs' = logs
               /\ rb_bound' = rb_port
               /\ rb_pc' = "serving_errors"
          ELSE /\ rb_startup_logs' =
                    log(logs, "Error server failed: Address already in use")
               /\ rb_pc' = "exited"
               /\ UNCHANGED rb_bound
    /\ UNCHANGED <<rb_env, rb_port, rb_startup_error, rb_response, rb_gets>>
    /\ UNCHANGED notRobustVars

\* ErrorHandler.do_GET: send_response logs the request, then the body is
\* built and written
ErrorServerGet(path) ==
    /\ rb_pc = "serving_errors"
    /\ rb_gets < MaxGets
    /\ LET logs == log(rb_startup_logs,
                       "Error server: \"GET " \o path \o " HTTP/1.1\" 500 -")
       IN /\ rb_startup_logs' = logs
          /\ rb_response' =
               Exchange("GET", path, error_response(rb_startup_error, logs))
    /\ rb_gets' = rb_gets + 1
    /\ UNCHANGED <<rb_pc, rb_env, rb_port, rb_startup_error, rb_bound>>
    /\ UNCHANGED notRobustVars

\* a request of another method: BaseHTTPRequestHandler finds no do_<method>
\* and answers 501 through send_error, which logs twice
ErrorServerOther(method) ==
    /\ rb_pc = "serving_errors"
    /\ rb_gets < MaxGets
    /\ rb_startup_logs' =
         log(log(rb_startup_logs,
                 "Error server: code 501, message Unsupported method ('"
                   \o method \o "')"),
             "Error server: \"" \o method \o " / HTTP/1.1\" 501 -")
    /\ rb_response' = Exchange(method, "/", [NoAnswer EXCEPT !.status = 501])
    /\ rb_gets' = rb_gets + 1
    /\ UNCHANGED <<rb_pc, rb_env, rb_port, rb_startup_error, rb_bound>>
    /\ UNCHANGED notRobustVars

(***************************************************************************)
(* direct_mcp_server.py: the launcher that keeps the PAT of a request      *)
(***************************************************************************)
\* the token assigned anew for every request
direct_pat_per_request(token, headers) == extract_pat(headers)

\* the header loop of app: the token is assigned when a key lower-cases to
\* the header name, and is left alone otherwise
direct_pat_update(token, headers) ==
    IF extract_pat(headers).some THEN extract_pat(headers) ELSE token

\* main.test_connection of the direct launcher
direct_test_connection(token, org) ==
    IF NotToken(token)
    THEN "Error: PAT token not provided in X-Azure-DevOps-PAT header"
    ELSE "Connected to Azure DevOps organization: " \o org

\* requests as uvicorn hands them to app: a tool call or a GET of the root,
\* with each header list, and the lifespan scope
DirectScopes ==
    {s \in HttpScopes : IsToolCall(s) \/ (s.path = "/" /\ s.method = "GET")}
      \cup OtherScopes

DirectOrgs == {None, Some("contoso")}

FreeDirectSlot == [pc |-> "free", scope |-> NoScope, text |-> ""]

drRest ==
    /\ dr_pc = "start"
    /\ dr_token = None
    /\ dr_requests = [r \in Slots |-> FreeDirectSlot]
    /\ dr_last_pat = None

drIdle ==
    /\ dr_org = None
    /\ drRest

drInit ==
    /\ dr_org \in DirectOrgs
    /\ drRest

\* main up to uvicorn.run, or to sys.exit(1)
DirectMain(imports_ok) ==
    /\ dr_pc = "start"
    /\ dr_pc' = IF NotToken(dr_org) \/ ~imports_ok THEN "exited" ELSE "serving"
    /\ UNCHANGED <<dr_org, dr_token, dr_requests, dr_last_pat>>
    /\ UNCHANGED notDirectVars

\* app up to "await base_app(scope, receive, send)"
DirectApp(r, scope) ==
    /\ dr_pc = "serving"
    /\ dr_requests[r].pc = "free"
    /\ dr_token' = IF scope.type = "http"
                   THEN direct_pat_update(dr_token, scope.headers)
                   ELSE dr_token
    /\ dr_last_pat' = IF scope.type = "http" /\ extract_pat(scope.headers).some
                      THEN extract_pat(scope.headers)
                      ELSE dr_last_pat
    /\ dr_requests' = [dr_requests EXCEPT ![r] =
                          [pc |-> "in_base_app", scope |-> scope, text |-> ""]]
    /\ UNCHANGED <<dr_pc, dr_org>>
    /\ UNCHANGED notDirectVars

\* base_app runs test_connection for a tool call
DirectTestConnection(r) ==
    /\ dr_requests[r].pc = "in_base_app"
    /\ IsToolCall(dr_requests[r].scope)
    /\ dr_requests' = [dr_requests EXCEPT ![r] =
                          [@ EXCEPT !.pc = "answered",
                                    !.text = direct_test_connection(dr_token,
                                                                    dr_org.val)]]
    /\ UNCHANGED <<dr_pc, dr_org, dr_token, dr_last_pat>>
    /\ UNCHANGED notDirectVars

\* base_app returns and app with it
DirectAppReturns(r) ==
    /\ \/ dr_requests[r].pc = "answered"
       \/ dr_requests[r].pc = "in_base_app" /\ ~IsToolCall(dr_requests[r].scope)
    /\ dr_requests' = [dr_requests EXCEPT ![r] = FreeDirectSlot]
    /\ UNCHANGED <<dr_pc, dr_org, dr_token, dr_last_pat>>
    /\ UNCHANGED notDirectVars

vars ==
    <<dmVars, cfgVars, httpVars, toolVars, tenantVars, authVars, uaVars,
      cliVars, bodyVars, raceVars, robustVars, directVars>>

InitDomains ==
    dmInit /\ cfgIdle /\ httpIdle /\ toolIdle /\ tnIdle /\ auIdle /\
      uaIdle /\ cliIdle /\ tbIdle /\ rcIdle /\ rbIdle /\ drIdle

InitRegistrar ==
    cfgInit /\ dmIdle /\ httpIdle /\ toolIdle /\ tnIdle /\ auIdle /\
      uaIdle /\ cliIdle /\ tbIdle /\ rcIdle /\ rbIdle /\ drIdle

InitHttp ==
    httpInit /\ dmIdle /\ cfgIdle /\ toolIdle /\ tnIdle /\ auIdle /\
      uaIdle /\ cliIdle /\ tbIdle /\ rcIdle /\ rbIdle /\ drIdle

InitTools ==
    toolInit /\ dmIdle /\ cfgIdle /\ httpIdle /\ tnIdle /\ auIdle /\
      uaIdle /\ cliIdle /\ tbIdle /\ rcIdle /\ rbIdle /\ drIdle

InitTenant ==
    tnInit /\ dmIdle /\ cfgIdle /\ httpIdle /\ toolIdle /\ auIdle /\
      uaIdle /\ cliIdle /\ tbIdle /\ rcIdle /\ rbIdle /\ drIdle

InitAuth ==
    auInit /\ dmIdle /\ cfgIdle /\ httpIdle /\ toolIdle /\ tnIdle /\
      uaIdle /\ cliIdle /\ tbIdle /\ rcIdle /\ rbIdle /\ drIdle

InitUserAgent ==
    uaInit /\ dmIdle /\ cfgIdle /\ httpIdle /\ toolIdle /\ tnIdle /\
      auIdle /\ cliIdle /\ tbIdle /\ rcIdle /\ rbIdle /\ drIdle

InitCli ==
    cliInit /\ dmIdle /\ cfgIdle /\ httpIdle /\ toolIdle /\ tnIdle /\
      auIdle /\ uaIdle /\ tbIdle /\ rcIdle /\ rbIdle /\ drIdle

InitToolBodies ==
    tbInit /\ dmIdle /\ cfgIdle /\ httpIdle /\ toolIdle /\ tnIdle /\
      auIdle /\ uaIdle /\ cliIdle /\ rcIdle /\ rbIdle /\ drIdle

InitTenantRace ==
    rcInit /\ dmIdle /\ cfgIdle /\ httpIdle /\ toolIdle /\ tnIdle /\
      auIdle /\ uaIdle /\ cliIdle /\ tbIdle /\ rbIdle /\ drIdle

InitRobust ==
    rbInit /\ dmIdle /\ cfgIdle /\ httpIdle /\ toolIdle /\ tnIdle /\
      auIdle /\ uaIdle /\ cliIdle /\ tbIdle /\ rcIdle /\ drIdle

InitDirect ==
    drInit /\ dmIdle /\ cfgIdle /\ httpIdle /\ toolIdle /\ tnIdle /\
      auIdle /\ uaIdle /\ cliIdle /\ tbIdle /\ rcIdle /\ rbIdle

NextTools ==
    \/ \E tool \in ToolTable : \E args \in [KeysOf(tool) -> ArgValues] :
          InvokeTool(tool, args)
    \/ \E yielded \in ProviderTokens : StepSucceeds(yielded)
    \/ \E skipped \in BOOLEAN : EntryHandled(skipped)
    \/ LoopEnds
    \/ \E message \in ExceptionMessages : StepRaises(message)
    \/ StepFallsBack
    \/ ReturnsEarly
    \/ ServerResponds

SpecTools == InitTools /\ [][NextTools]_vars

NextTenant ==
    \/ \E d \in ClockSteps : Tick(d)
    \/ \E org_name \in Orgs : GetOrgTenant(org_name)
    \/ \E response \in Responses, outcome \in SaveOutcomes :
          FetchCompletes(response, outcome)
    \/ TenantReturned

SpecTenant == InitTenant /\ [][NextTenant]_vars

NextAuth ==
    \/ \E auth_type \in AuthTypes, tenant_id \in TenantArgs,
          pat_token \in PatArgs :
          CreateAuthenticator(auth_type, tenant_id, pat_token)
    \/ \E credential \in Credentials : AwaitGetToken(credential)

SpecAuth == InitAuth /\ [][NextAuth]_vars

NextUserAgent ==
    \/ \E package_version \in PackageVersions :
          NewUserAgentComposer(package_version)
    \/ \E info \in ClientInfos : AppendMcpClientInfo(info)

SpecUserAgent == InitUserAgent /\ [][NextUserAgent]_vars

NextCli ==
    \/ Main
    \/ RunServer
    \/ \E resolved \in ResolverResults, lookups \in ResolverLookups :
          StdioTenant(resolved, lookups)
    \/ StdioCreatesAuthenticator
    \/ UvicornMissing
    \/ ServerEnds

SpecCli == InitCli /\ [][NextCli]_vars

NextToolBodies ==
    \/ \E outcome \in CallOutcomes : BodyConnects(outcome)
    \/ BodyReturned
    \/ \E source_id \in WorkItemIds, target_id \in WorkItemIds,
          link_type \in LinkTypeArgs :
          InvokeUnlink(source_id, target_id, link_type)
    \/ \E outcome \in CallOutcomes : UnlinkGetsWorkItem(outcome)
    \/ \E outcome \in CallOutcomes : UnlinkUpdates(outcome)
    \/ \E project \in TextArgs, repository_id \in TextArgs,
          branch_name \in BranchNameArgs, source_branch \in SourceBranchArgs :
          InvokeCreateBranch(project, repository_id, branch_name, source_branch)
    \/ \E outcome \in CallOutcomes, refs \in RefResults :
          CreateBranchGetsRefs(outcome, refs)
    \/ \E outcome \in CallOutcomes : CreateBranchUpdatesRefs(outcome)
    \/ \E source_id \in WorkItemIds, target_id \in WorkItemIds,
          link_type \in LinkNameArgs :
          InvokeLink(source_id, target_id, link_type)
    \/ \E outcome \in CallOutcomes : LinkUpdates(outcome)
    \/ \E project \in TextArgs, work_items \in WorkItemLists :
          InvokeBatch(project, work_items)
    \/ \E outcome \in CallOutcomes : BatchHandlesEntry(outcome)
    \/ BatchReturns

SpecToolBodies == InitToolBodies /\ [][NextToolBodies]_vars

NextTenantRace ==
    \/ \E p \in Instances, org_name \in Orgs : InstanceLoads(p, org_name)
    \/ \E p \in Instances, response \in Responses :
          InstanceFetchCompletes(p, response)
    \/ \E p \in Instances, outcome \in SaveOutcomes : InstanceSaves(p, outcome)

SpecTenantRace == InitTenantRace /\ [][NextTenantRace]_vars

NextRobust ==
    \/ RobustMain
    \/ \E outcome \in StartupOutcomes : StartMcpServer(outcome)
    \/ \E binds \in BOOLEAN : StartErrorServer(binds)
    \/ \E path \in GetPaths : ErrorServerGet(path)
    \/ \E method \in OtherMethods : ErrorServerOther(method)

SpecRobust == InitRobust /\ [][NextRobust]_vars

NextDirect ==
    \/ \E imports_ok \in BOOLEAN : DirectMain(imports_ok)
    \/ \E r \in Slots, scope \in DirectScopes : DirectApp(r, scope)
    \/ \E r \in Slots : DirectTestConnection(r)
    \/ \E r \in Slots : DirectAppReturns(r)

SpecDirect == InitDirect /\ [][NextDirect]_vars

NextHttp ==
    \/ RunHttpServer
    \/ \E r \in Slots, scope \in HttpScopes : CustomAppHttp(r, scope)
    \/ \E r \in Slots, scope \in OtherScopes : CustomAppOther(r, scope)
    \/ \E r \in Slots : Send401Body(r)
    \/ \E r \in Slots : CallTestConnection(r)
    \/ \E r \in Slots : CallGetServerInfo(r)
    \/ \E r \in Slots : BaseAppReturns(r)
    \/ \E r \in Slots : ExchangeOver(r)

SpecHttp == InitHttp /\ [][NextHttp]_vars

NextRegistrar == ConfigureIfDomainEnabled

SpecRegistrar == InitRegistrar /\ [][NextRegistrar]_vars

NextDomains ==
    \/ DomainsManagerInit
    \/ \E d \in QueryNames : IsDomainEnabled(d)

SpecDomains == InitDomains /\ [][NextDomains]_vars

(***************************************************************************)
(* Domain selection: C6, C7, C8                                            *)
(***************************************************************************)
\* the entries of a list or of a comma-separated string, as typed
EntriesOf(v) == IF v.kind = "list" THEN v.val ELSE Split(v.val, ",")

\* the name an entry stands for: trimmed and lower-cased
NameOf(e) == Lower(Strip(e))

NamesOf(v) == {NameOf(EntriesOf(v)[i]) : i \in 1..Len(EntriesOf(v))}

WhitespaceOnly(s) == \A i \in 1..Len(s) : s[i] \in Whitespace

DefaultSelection(v) ==
    \/ v.kind = "none"
    \/ v.kind = "list" /\ v.val \in {<<>>, <<ALL_DOMAINS>>}
    \/ v.kind = "str" /\ WhitespaceOnly(v.val)

\* C6: for an input equal to ["all"], None, [], or an empty or
\* whitespace-only string, the enabled set is the full nine-domain set.
C6_DefaultSelectionEnablesAll ==
    (dm_pc = "ready" /\ DefaultSelection(dm_input))
        => (dm_enabled = DomainValues /\ Cardinality(dm_enabled) = 9)

C6_Witness ==
    /\ dm_pc = "ready"
    /\ dm_input = StrValue(<<" ", " ", " ">>)
    /\ dm_enabled = DomainValues

OnlyRecognized(v) ==
    /\ v.kind = "list"
    /\ v.val # <<>>
    /\ NamesOf(v) \subseteq DomainValues

\* C7: for a (non-empty) list of recognized domain names in any letter
\* case, padded with blanks, possibly repeated, the enabled set is exactly
\* the set of trimmed lower-cased names, and is_domain_enabled answers
\* false for every other name.
C7_RecognizedListEnablesExactly ==
    (dm_pc = "ready" /\ OnlyRecognized(dm_input))
        => /\ dm_enabled = NamesOf(dm_input)
           /\ dm_query # <<>> =>
                (dm_query[2] <=> dm_query[1] \in NamesOf(dm_input))

C7_Witness ==
    /\ dm_pc = "ready"
    /\ dm_input = ListValue(<<Upper(CORE), <<" ">> \o WIKI \o <<" ", " ">>>>)
    /\ dm_enabled = {CORE, WIKI}
    /\ dm_query = <<PIPELINES, FALSE>>

Unrecognized(name) == name \notin DomainValues \cup {ALL_DOMAINS}

HasUnrecognized(v) ==
    /\ v.kind \in {"list", "str"}
    /\ \E n \in NamesOf(v) : Unrecognized(n)

\* C8: for a list or comma-separated string with at least one unrecognized
\* name, construction completes, every recognized name is enabled, no
\* unrecognized name adds anything, and with no recognized name left the
\* enabled set is the full nine-domain set (as it is when the input also
\* carries the keyword all).
C8_UnrecognizedDropped ==
    (dm_pc = "ready" /\ HasUnrecognized(dm_input))
        => LET recognized == NamesOf(dm_input) \cap DomainValues IN
           /\ recognized \subseteq dm_enabled
           /\ dm_enabled \subseteq DomainValues
           /\ dm_enabled =
                IF recognized = {} \/ ALL_DOMAINS \in NamesOf(dm_input)
                THEN DomainValues ELSE recognized

C8_Witness ==
    /\ dm_pc = "ready"
    /\ dm_input = StrValue(Join(<<BUILDS, Upper(CORE)>>, ","))
    /\ dm_enabled = {CORE}

C8_WitnessFallback ==
    /\ dm_pc = "ready"
    /\ dm_input = ListValue(<<BUILDS>>)
    /\ dm_enabled = DomainValues

(***************************************************************************)
(* Tool registrar: C9                                                      *)
(***************************************************************************)
\* the order the specification gives, with each domain's function
RegistrarOrder ==
    <<<<CORE, "configure_core_tools">>,
      <<WORK, "configure_work_tools">>,
      <<PIPELINES, "configure_pipeline_tools">>,
      <<REPOSITORIES, "configure_repo_tools">>,
      <<WORK_ITEMS, "configure_work_item_tools">>,
      <<WIKI, "configure_wiki_tools">>,
      <<TEST_PLANS, "configure_test_plan_tools">>,
      <<SEARCH, "configure_search_tools">>,
      <<ADVANCED_SECURITY, "configure_advsec_tools">>>>

PositionOf(fn) == CHOOSE i \in 1..9 : RegistrarOrder[i][2] = fn

Invoked(fn) == \E j \in 1..Len(cfg_calls) : cfg_calls[j] = fn

\* the tool functions a domain module defines
ToolsOfDomain(d) ==
    UNION {ConfigureSteps[i].tools :
             i \in {j \in 1..Len(ConfigureSteps) : ConfigureSteps[j].domain = d}}

\* C9: configure_all_tools invokes a domain's configuration function if
\* and only if the domain is enabled, each at most once, in the order core,
\* work, pipelines, repositories, work items, wiki, test plans, search,
\* advanced security; no tool of a disabled domain is ever registered.
C9_RegistrarGatesByDomain ==
    /\ \A i \in 1..9 :
          Invoked(RegistrarOrder[i][2])
            <=> (RegistrarOrder[i][1] \in cfg_enabled /\ i <= cfg_idx)
    /\ \A j \in 1..Len(cfg_calls) :
          \E i \in 1..9 : RegistrarOrder[i][2] = cfg_calls[j]
    /\ \A j, k \in 1..Len(cfg_calls) :
          j < k => PositionOf(cfg_calls[j]) < PositionOf(cfg_calls[k])
    /\ \A d \in DomainValues \ cfg_enabled : cfg_tools \cap ToolsOfDomain(d) = {}
    /\ cfg_idx = 9 =>
          cfg_tools = UNION {ToolsOfDomain(d) : d \in cfg_enabled}

C9_Witness ==
    /\ cfg_idx = 9
    /\ cfg_enabled = {WIKI, CORE}
    /\ cfg_calls = <<"configure_core_tools", "configure_wiki_tools">>
    /\ cfg_tools = CoreTools \cup WikiTools

(***************************************************************************)
(* HTTP transport: C1, C2, C3, C10                                         *)
(***************************************************************************)
\* the requests whose gate has run
Gated == {r \in Slots : requests[r].pc # "free" /\ requests[r].scope.type = "http"}

\* the request carries a header named X-Azure-DevOps-PAT, in any case
CarriesPatHeader(scope) ==
    \E i \in 1..Len(scope.headers) : Lower(scope.headers[i][1]) = PAT_HEADER

\* the header is absent, or present with an empty value
PatAbsentOrEmpty(scope) ==
    \A i \in 1..Len(scope.headers) :
        Lower(scope.headers[i][1]) = PAT_HEADER => scope.headers[i][2] = ""

\* the body section 4.7 documents for the 401 answer
DocumentedBody ==
    "{\"error\": \"Authentication required\", \"message\": \"Please provide PAT token in X-Azure-DevOps-PAT header\"}"

Answered401(q) ==
    /\ q.status = 401
    /\ q.forwards = 0
    /\ q.pc \in {"send_body", "done"}
    /\ q.pc = "done" => q.body = DocumentedBody

ForwardedOnce(q) ==
    /\ q.forwards = 1
    /\ q.status # 401
    /\ q.body # DocumentedBody

C2_NonRootWithoutHeaderIs401 ==
    \A r \in Gated :
        LET q == requests[r] IN
        q.scope.path # "/" =>
            IF CarriesPatHeader(q.scope) /\ ~PatAbsentOrEmpty(q.scope)
            THEN ForwardedOnce(q)
            ELSE ~CarriesPatHeader(q.scope) => Answered401(q)

\* C3: a tool run for a request reads the PAT of that request's own
\* header, never the value another request stored.
C3_ToolReadsOwnPat ==
    \A r \in Slots :
        requests[r].result.tool = "test_connection"
            => requests[r].result.seen = extract_pat(requests[r].scope.headers)

\* C10: in HTTP mode the tools exposed are those of every enabled domain
\* plus test_connection and get_server_info.
C10_HttpExposesDomainTools ==
    http_pc = "serving"
        => mcp_tools = {"test_connection", "get_server_info"}
                         \cup UNION {ToolsOfDomain(d) : d \in enabled_domains}


(***************************************************************************)
(* Required arguments and responses of the tool bodies                     *)
(***************************************************************************)
Invoked4 == tool_pc # "idle"

CurrentTool == ToolNamed(tool_call.name)

MissingOrEmpty(v) == v \in {"absent", "empty"}

RequiredMessage(key) == "Error: " \o key \o " parameter is required"

\* the invocation was answered with the required-argument message of one of
\* the given keys, before any token, connection or remote call
RejectedFor(keys) ==
    /\ tool_pc = "returned"
    /\ \E k \in keys : tool_result = <<TextContent(RequiredMessage(k))>>
    /\ tool_effects = NoEffects

MissingKeys == {k \in KeysOf(CurrentTool) : MissingOrEmpty(tool_call.args[k])}

\* C4: an invocation whose required argument is missing or empty is
\* answered with "Error: <argument> parameter is required" for such an
\* argument, and no token was fetched, no connection built and no remote
\* call made.
C4_MissingRequiredRejected ==
    (Invoked4 /\ MissingKeys # {}) => RejectedFor(MissingKeys)

\* C5: every tool invocation ends with exactly one response made of one or
\* more text blocks, whichever of its calls raises; no exception leaves the
\* tool body, and the server can go on to the next invocation.
C5_OneTextResponseNoEscape ==
    /\ tool_pc # "escaped"
    /\ tool_pc = "returned" =>
          /\ Len(tool_result) >= 1
          /\ \A i \in 1..Len(tool_result) : tool_result[i].type = "text"
          /\ ENABLED ServerResponds
    /\ tool_pc \in {"idle", "running"} => tool_result = <<>>

\* an invocation whose remote call raised was answered with the error text
\* of its tool, after an earlier invocation was served
C5_Witness ==
    /\ tool_pc = "returned"
    /\ tool_served >= 1
    /\ tool_effects.remote >= 1
    /\ \E message \in ExceptionMessages :
          tool_result = <<TextContent(CurrentTool.err \o message)>>

(***************************************************************************)
(* get_server_info in HTTP mode                                            *)
(***************************************************************************)
\* the domains argument main hands over when --domains is not given
DefaultDomainsArg == <<ALL_DOMAINS>>

\* C11: in HTTP mode started with organization O and the default domain
\* selection, get_server_info invoked by a request that carries a PAT header
\* answers with organization = O and enabled_domains = the nine domains,
\* whatever the PAT value and whatever the other requests were.
C11_ServerInfoReportsStartArguments ==
    \A r \in Slots :
        (/\ requests[r].result.tool = "get_server_info"
         /\ CarriesPatHeader(requests[r].scope)
         /\ http_args[2] = DefaultDomainsArg)
            => /\ requests[r].result.info.organization = http_args[1]
               /\ requests[r].result.info.enabled_domains = DomainValues

\* POST /mcp with X-Azure-DevOps-PAT: abc123pat was answered by
\* get_server_info with organization contoso and nine domains, while another
\* request with another PAT is in flight
C11_Witness ==
    /\ http_args = <<"contoso", DefaultDomainsArg>>
    /\ requests[1].scope =
         [type |-> "http", headers |-> <<<<PAT_HEADER, "abc123pat">>>>,
          path |-> "/mcp", method |-> "POST"]
    /\ requests[1].result.tool = "get_server_info"
    /\ requests[1].result.info.organization = "contoso"
    /\ Cardinality(requests[1].result.info.enabled_domains) = 9
    /\ requests[2].pc = "in_app"
    /\ extract_pat(requests[2].scope.headers) = Some("pat-of-bob-000002")

(***************************************************************************)
(* The tenant cache                                                        *)
(***************************************************************************)
\* now minus refreshedOn of the entry get_org_tenant found, at its test
EntryAge == tn_called_at - tn_entry.val.refreshedOn

\* C12: when get_org_tenant returns, if the cache held an entry for the
\* organization whose age did not exceed 604,800,000 ms, then the entry's
\* tenant ID was returned and no lookup was issued; if the age exceeded it,
\* or there was no entry, a lookup was attempted first.
C12_CacheWithinTtlSkipsLookup ==
    tn_pc = "returned" =>
        /\ (tn_entry.some /\ EntryAge <= 604800000)
              => /\ tn_result = Some(tn_entry.val.tenantId)
                 /\ tn_lookups = 0
        /\ (~tn_entry.some \/ EntryAge > 604800000) => tn_lookups >= 1

\* an entry exactly 604,800,000 ms old was returned without a lookup
C12_Witness ==
    /\ tn_pc = "returned"
    /\ tn_entry.some
    /\ EntryAge = 604800000
    /\ tn_result = Some("tenant-a")
    /\ tn_lookups = 0

\* the lookup of this call failed in one of the three ways
LookupFailed ==
    /\ tn_lookups >= 1
    /\ \/ tn_response.kind = "error"
       \/ tn_response.kind = "response" /\ tn_response.status # 404
       \/ /\ tn_response.kind = "response"
          /\ tn_response.status = 404
          /\ ~tn_response.tenant.some

IsAppendCall == ua_calls' = ua_calls + 1

\* C15: an append_mcp_client_info call made after one that appended leaves
\* the user-agent string as it was, whatever its argument; so does a call
\* with absent info, an empty name or an empty version; and the first call
\* with a name and a version appends " <name>/<version>", once.
C15_ClientInfoAppendedOnce ==
    [][IsAppendCall =>
         /\ ua_appended => ua_user_agent' = ua_user_agent
         /\ (\/ ~ua_last_info'.some
             \/ ua_last_info'.name = ""
             \/ ua_last_info'.version = "") => ua_user_agent' = ua_user_agent
         /\ (/\ ~ua_appended
             /\ ua_last_info'.some
             /\ ua_last_info'.name # ""
             /\ ua_last_info'.version # "")
               => ua_user_agent' = ua_user_agent \o " " \o ua_last_info'.name
                                     \o "/" \o ua_last_info'.version]_vars

\* after an append with vscode/1.0, a call with cursor/2.1 left the string
\* as the first call made it
C15_Witness ==
    /\ ua_calls = 2
    /\ ua_last_info = McpClientInfo("cursor", "2.1")
    /\ ua_user_agent = "AzureDevOps.MCP/1.0.0 (python) vscode/1.0"

(***************************************************************************)
(* Start-up from the command line                                          *)
(***************************************************************************)
\* an organization source that is absent or empty
Unset(x) == ~x.some \/ x.val = ""

FatalUsage ==
    \/ Unset(cli_args.organization) /\ Unset(cli_args.env_org)
    \/ cli_args.authentication = "pat" /\ cli_args.mode # "http"

\* C16: once main has acted: if neither the positional organization nor
\* AZURE_DEVOPS_ORG is set, or authentication is pat while mode is not http,
\* the process has exited with code 1, run_server was never called and no
\* server was started; otherwise run_server was called exactly once, with
\* the positional organization if it is set and the variable's otherwise.
C16_UsageErrorsExitBeforeServer ==
    cli_pc # "start" =>
        IF FatalUsage
        THEN /\ cli_pc = "exited"
             /\ cli_exit = 1
             /\ cli_run_calls = 0
             /\ cli_server = "none"
        ELSE /\ cli_run_calls = 1
             /\ cli_org_name = IF Unset(cli_args.organization)
                               THEN cli_args.env_org
                               ELSE cli_args.organization

\* with contoso on the command line and fabrikam in the environment, the
\* HTTP server runs for contoso under pat authentication
C16_Witness ==
    /\ cli_args = [organization |-> Some("contoso"), env_org |-> Some("fabrikam"),
                   authentication |-> "pat", mode |-> "http"]
    /\ cli_pc = "serving"
    /\ cli_server = "http"
    /\ cli_run_calls = 1
    /\ cli_org_name = Some("contoso")

(***************************************************************************)
(* wit_work_item_unlink                                                    *)
(***************************************************************************)
\* the unlink tool has answered after get_work_item returned the work item
UnlinkAnswered ==
    /\ tb_tool = "wit_work_item_unlink"
    /\ tb_pc = "returned"
    /\ tb_locals.work_item.some

\* the link type the tool resolves: linkType, or related when it is absent
ResolvedLinkType ==
    get_link_type_from_name(
        IF tb_args.linkType.some THEN tb_args.linkType.val
                                 ELSE <<"r","e","l","a","t","e","d">>)

\* positions, from 1, of the fetched relations that match the target and
\* the resolved link type
Matches ==
    {i \in 1..Len(tb_locals.work_item.relations) :
        /\ tb_locals.work_item.relations[i].url
             = ORG_URL \o "/_apis/wit/workItems/" \o tb_args.targetId.val
        /\ tb_locals.work_item.relations[i].rel = ResolvedLinkType}

FirstMatch == CHOOSE i \in Matches : \A j \in Matches : i <= j

UpdateCalls ==
    {k \in 1..Len(tb_calls) : tb_calls[k].op = "update_work_item"}

NotFoundTexts ==
    {"Link not found between the specified work items",
     "No relations found on the source work item"}

\* C17: when wit_work_item_unlink has answered: if a fetched relation has
\* the target's URL and the resolved link type, exactly one update was
\* issued, a single remove at /relations/<i> with i the index of the first
\* such relation; if none has, a not-found text was returned, no update was
\* issued and the work item's relations are as they were fetched.
C17_UnlinkRemovesFirstMatch ==
    UnlinkAnswered =>
        IF Matches # {}
        THEN /\ Cardinality(UpdateCalls) = 1
             /\ \A k \in UpdateCalls :
                   /\ tb_calls[k].id = tb_args.sourceId.val
                   /\ tb_calls[k].document =
                        <<[op |-> "remove",
                           path |-> "/relations/" \o DecimalOf(FirstMatch - 1)]>>
        ELSE /\ UpdateCalls = {}
             /\ Len(tb_result) = 1
             /\ tb_result[1].text \in NotFoundTexts
             /\ tb_relations = tb_locals.work_item.relations

\* of two relations to work item 7 the second is the related one; it was
\* removed with a patch at /relations/1 and the first is left
C17_Witness ==
    /\ UnlinkAnswered
    /\ ~tb_args.linkType.some
    /\ Len(tb_locals.work_item.relations) = 2
    /\ Matches = {2}
    /\ tb_locals.patch = <<[op |-> "remove", path |-> "/relations/1"]>>
    /\ tb_relations = <<tb_locals.work_item.relations[1]>>

(***************************************************************************)
(* repo_create_branch                                                      *)
(***************************************************************************)
InCreateBranch == tb_tool = "repo_create_branch"

GetRefsCalls == {k \in 1..Len(tb_calls) : tb_calls[k].op = "get_refs"}

UpdateRefsCalls == {k \in 1..Len(tb_calls) : tb_calls[k].op = "update_refs"}

\* C18: in repo_create_branch, with sourceBranch unset the ref resolved is
\* refs/heads/main; at most one ref-update is issued, after the source ref
\* was resolved and only if one was found; and it carries one update whose
\* old-object-id is forty zeros and whose new-object-id is the object ID of
\* the resolved source ref.
C18_CreateBranchFromResolvedSource ==
    InCreateBranch =>
        /\ ~tb_args.sourceBranch.some =>
              \A k \in GetRefsCalls :
                 tb_calls[k].filter
                   = <<"r","e","f","s","/","h","e","a","d","s","/","m","a","i","n">>
        /\ Cardinality(UpdateRefsCalls) <= 1
        /\ \A k \in UpdateRefsCalls :
              /\ \E g \in GetRefsCalls : g < k
              /\ tb_locals.source_refs # <<>>
              /\ Len(tb_calls[k].ref_updates) = 1
              /\ tb_calls[k].ref_updates[1].oldObjectId
                   = "0000000000000000000000000000000000000000"
              /\ Len(tb_calls[k].ref_updates[1].oldObjectId) = 40
              /\ tb_calls[k].ref_updates[1].newObjectId
                   = tb_locals.source_refs[1].object_id

\* with sourceBranch unset and two refs returned, the branch was created
\* from the first one's object ID
C18_Witness ==
    /\ InCreateBranch
    /\ tb_pc = "returned"
    /\ ~tb_args.sourceBranch.some
    /\ Len(tb_locals.source_refs) = 2
    /\ UpdateRefsCalls = {2}
    /\ tb_calls[2].ref_updates[1].newObjectId = OBJECT_ID_B
    /\ tb_result = <<TextContent("result of repo_create_branch")>>

(***************************************************************************)
(* wit_work_items_link                                                     *)
(***************************************************************************)
\* the twelve link-type names and their relation types, as documented
DocumentedLinkTypes ==
    <<<<<<"p","a","r","e","n","t">>,
        <<"S","y","s","t","e","m",".","L","i","n","k","T","y","p","e","s",".","H","i","e","r","a","r","c","h","y","-","R","e","v","e","r","s","e">>>>,
      <<<<"c","h","i","l","d">>,
        <<"S","y","s","t","e","m",".","L","i","n","k","T","y","p","e","s",".","H","i","e","r","a","r","c","h","y","-","F","o","r","w","a","r","d">>>>,
      <<<<"d","u","p","l","i","c","a","t","e">>,
        <<"S","y","s","t","e","m",".","L","i","n","k","T","y","p","e","s",".","D","u","p","l","i","c","a","t","e","-","F","o","r","w","a","r","d">>>>,
      <<<<"d","u","p","l","i","c","a","t","e"," ","o","f">>,
        <<"S","y","s","t","e","m",".","L","i","n","k","T","y","p","e","s",".","D","u","p","l","i","c","a","t","e","-","R","e","v","e","r","s","e">>>>,
      <<<<"r","e","l","a","t","e","d">>,
        <<"S","y","s","t","e","m",".","L","i","n","k","T","y","p","e","s",".","R","e","l","a","t","e","d">>>>,
      <<<<"s","u","c","c","e","s","s","o","r">>,
        <<"S","y","s","t","e","m",".","L","i","n","k","T","y","p","e","s",".","D","e","p","e","n","d","e","n","c","y","-","F","o","r","w","a","r","d">>>>,
      <<<<"p","r","e","d","e","c","e","s","s","o","r">>,
        <<"S","y","s","t","e","m",".","L","i","n","k","T","y","p","e","s",".","D","e","p","e","n","d","e","n","c","y","-","R","e","v","e","r","s","e">>>>,
      <<<<"t","e","s","t","e","d"," ","b","y">>,
        <<"M","i","c","r","o","s","o","f","t",".","V","S","T","S",".","C","o","m","m","o","n",".","T","e","s","t","e","d","B","y","-","F","o","r","w","a","r","d">>>>,
      <<<<"t","e","s","t","s">>,
        <<"M","i","c","r","o","s","o","f","t",".","V","S","T","S",".","C","o","m","m","o","n",".","T","e","s","t","e","d","B","y","-","R","e","v","e","r","s","e">>>>,
      <<<<"a","f","f","e","c","t","s">>,
        <<"M","i","c","r","o","s","o","f","t",".","V","S","T","S",".","C","o","m","m","o","n",".","A","f","f","e","c","t","s","-","F","o","r","w","a","r","d">>>>,
      <<<<"a","f","f","e","c","t","e","d"," ","b","y">>,
        <<"M","i","c","r","o","s","o","f","t",".","V","S","T","S",".","C","o","m","m","o","n",".","A","f","f","e","c","t","s","-","R","e","v","e","r","s","e">>>>,
      <<<<"a","r","t","i","f","a","c","t">>,
        <<"A","r","t","i","f","a","c","t","L","i","n","k">>>>>>

\* the linkType the caller gave, related when it gave none
GivenLinkType ==
    IF tb_args.linkType.some THEN tb_args.linkType.val
                             ELSE <<"r","e","l","a","t","e","d">>

\* the relations wit_work_items_link has asked the service to add
AddedRelations ==
    {tb_calls[k].document[1].value : k \in 1..Len(tb_calls)}

\* C19: the rel of the relation wit_work_items_link adds is the documented
\* relation type when linkType is one of the twelve names, and linkType
\* itself when it is none of them in any letter case.
C19_LinkTypeResolved ==
    tb_tool = "wit_work_items_link" =>
        \A relation \in AddedRelations :
            /\ \A i \in 1..Len(DocumentedLinkTypes) :
                  GivenLinkType = DocumentedLinkTypes[i][1]
                      => relation.rel = DocumentedLinkTypes[i][2]
            /\ (\A i \in 1..Len(DocumentedLinkTypes) :
                  Lower(GivenLinkType) # DocumentedLinkTypes[i][1])
                      => relation.rel = GivenLinkType

\* linkType child added a System.LinkTypes.Hierarchy-Forward relation to
\* work item 7
C19_Witness ==
    /\ tb_tool = "wit_work_items_link"
    /\ tb_pc = "returned"
    /\ tb_args.linkType = Some(<<"c","h","i","l","d">>)
    /\ Len(tb_calls) = 1
    /\ tb_calls[1].document[1].value =
         [rel |-> DocumentedLinkTypes[2][2],
          url |-> "https://dev.azure.com/contoso/_apis/wit/workItems/7"]
    /\ tb_result = <<TextContent("result of wit_work_items_link")>>

(***************************************************************************)
(* No remote operation is retried                                          *)
(***************************************************************************)
\* a step in which the tool body issues a remote call
RemoteAttempt == tool_effects'.remote > tool_effects.remote

\* a step in which a call of the tool body raises
CallFails == tool_raised' > tool_raised

\* C20: every step of a tool invocation issues at most one remote call and
\* then leaves that call behind: the body moves to its next call or its
\* next list entry, or it returns; and when a call fails the invocation ends
\* at once with a text result, the call not being issued again.
C20_NoRemoteCallRetried ==
    [][/\ RemoteAttempt =>
            /\ tool_pc = "running"
            /\ tool_effects'.remote = tool_effects.remote + 1
            /\ \/ tool_pc' = "returned"
               \/ tool_step' = tool_step + 1
               \/ tool_entry' = tool_entry + 1
       /\ CallFails =>
            /\ tool_pc' = "returned"
            /\ Len(tool_result') = 1
            /\ tool_result'[1].type = "text"
       /\ tool_pc = "returned" => tool_effects'.remote = 0]_vars

\* the one update_work_item call of wit_update_work_item failed and the
\* invocation ended with the error text
C20_Witness ==
    /\ tool_call.name = "wit_update_work_item"
    /\ tool_pc = "returned"
    /\ tool_effects.remote = 1
    /\ tool_result = <<TextContent("Error updating work item: connection refused")>>

(***************************************************************************)
(* A successful live lookup updates and persists the cache                 *)
(***************************************************************************)
\* a step in which the live lookup of get_org_tenant succeeds
LookupSucceeds ==
    /\ tn_pc = "fetching"
    /\ tn_pc' = "returned"
    /\ fetch_tenant_from_api(tn_response').ok

\* the cache file holds exactly the cache get_org_tenant handed to
\* try_saving_cache
Persisted == tn_file' = [kind |-> "valid", data |-> tn_cache']

\* the write failed: the file is as it was, or was left cut short
WriteFailed ==
    \/ tn_file' = tn_file
    \/ tn_file' = [kind |-> "malformed", data |-> EmptyCache]

\* C21: when a live lookup of get_org_tenant(O) succeeds with tenant T, the
\* cache handed to try_saving_cache maps O to T with refreshedOn equal to
\* the time of the lookup and holds every other organization's entry of the
\* loaded cache unchanged, and no further entry; the file holds exactly that
\* cache unless the write failed; and T is returned in either case.
C21_LookupPersistsCache ==
    [][LookupSucceeds =>
        /\ tn_result' = Some(tn_response'.tenant.val)
        /\ tn_org \in DOMAIN tn_cache'
        /\ tn_cache'[tn_org] =
             [tenantId |-> tn_response'.tenant.val, refreshedOn |-> tn_now]
        /\ DOMAIN tn_cache' = DOMAIN tn_cache \cup {tn_org}
        /\ \A o \in DOMAIN tn_cache \ {tn_org} : tn_cache'[o] = tn_cache[o]
        /\ Persisted \/ WriteFailed]_vars

\* fabrikam was looked up with the entry of contoso in the loaded cache; the
\* file now holds both entries and the tenant ID was returned
C21_Witness ==
    /\ tn_pc = "returned"
    /\ tn_org = "fabrikam"
    /\ tn_lookups = 1
    /\ tn_result = Some("tenant-b")
    /\ tn_file.kind = "valid"
    /\ DOMAIN tn_file.data = {"contoso", "fabrikam"}
    /\ tn_file.data["contoso"] = [tenantId |-> "tenant-a", refreshedOn |-> 0]
    /\ tn_file.data["fabrikam"].tenantId = "tenant-b"
    /\ tn_file.data["fabrikam"].refreshedOn = tn_now

(***************************************************************************)
(* File and network accesses of one get_org_tenant call                    *)
(***************************************************************************)
\* the HEAD request of a step met status 404 with a non-empty
\* x-vss-resourcetenant header
LiveLookupSucceeded ==
    /\ tn_response'.kind = "response"
    /\ tn_response'.status = 404
    /\ tn_response'.tenant.some
    /\ tn_response'.tenant.val # ""

\* a step that ends get_org_tenant on an entry no older than the TTL
FreshHit ==
    /\ tn_pc = "idle"
    /\ tn_pc' = "returned"
    /\ tn_lookups' = 0

\* C22: one call of get_org_tenant calls load_cache exactly once, issues at
\* most one HEAD request and calls try_saving_cache at most once, and only
\* in the step in which the live lookup succeeded; a step that ends the call
\* on a fresh entry or on a failed lookup leaves the cache file as it was.
C22_OneReadOneLookupOneWrite ==
    [][/\ tn_pc' \in {"fetching", "returned"} =>
            /\ tn_reads' = 1
            /\ tn_lookups' <= 1
            /\ tn_writes' <= 1
       /\ tn_writes' > tn_writes =>
            tn_pc = "fetching" /\ tn_lookups' = 1 /\ LiveLookupSucceeded
       /\ tn_file' # tn_file => tn_writes' > tn_writes
       /\ FreshHit => tn_file' = tn_file /\ tn_writes' = 0
       /\ (tn_pc = "fetching" /\ tn_pc' = "returned" /\ ~LiveLookupSucceeded)
            => tn_file' = tn_file /\ tn_writes' = 0]_vars

\* the lookup met status 200 although the header was there: the call
\* returned with the file read once and not written
C22_Witness ==
    /\ tn_pc = "returned"
    /\ tn_reads = 1
    /\ tn_lookups = 1
    /\ tn_writes = 0
    /\ tn_response = [kind |-> "response", status |-> 200,
                      tenant |-> Some("tenant-a")]
    /\ tn_file.kind = "valid"

(***************************************************************************)
(* Two instances updating the cache file                                   *)
(***************************************************************************)
\* the position in the log of the access of instance p, 0 when it made none
AccessAt(p, access) ==
    IF \E i \in 1..Len(rc_log) : rc_log[i][1] = p /\ rc_log[i][2] = access
    THEN CHOOSE i \in 1..Len(rc_log) :
            rc_log[i][1] = p /\ rc_log[i][2] = access
    ELSE 0

\* instance p resolved its organization by a live lookup and wrote the file
ResolvedAndWrote(p) ==
    /\ rc_pc[p] = "returned"
    /\ AccessAt(p, "save") > 0
    /\ rc_log[AccessAt(p, "save")][3] = "written"

\* both instances loaded the file before either of them saved it
BothLoadBeforeEitherSaves ==
    \A p, q \in Instances : AccessAt(p, "load") < AccessAt(q, "save")

\* the file lacks the entry instance p resolved
LacksEntryOf(p) ==
    \/ rc_file.kind # "valid"
    \/ rc_org[p] \notin DOMAIN rc_file.data
    \/ rc_file.data[rc_org[p]] # rc_cache[p][rc_org[p]]

\* C23: when two instances ran get_org_tenant for two different
\* organizations, both live lookups succeeded, both wrote the file, and both
\* had loaded the file before either wrote it, the file holds exactly the
\* dict of the instance that wrote last and lacks the entry the other
\* instance resolved.
C23_LaterWriteOverwritesEarlier ==
    \A p, q \in Instances :
        (/\ p # q
         /\ rc_org[p] # rc_org[q]
         /\ ResolvedAndWrote(p)
         /\ ResolvedAndWrote(q)
         /\ BothLoadBeforeEitherSaves
         /\ AccessAt(p, "save") < AccessAt(q, "save"))
        => /\ rc_file = [kind |-> "valid", data |-> rc_cache[q]]
           /\ LacksEntryOf(p)

\* instance 1 resolved contoso and instance 2 fabrikam, both against a
\* missing file; instance 2 wrote last and the file has no entry of contoso
C23_Witness ==
    /\ rc_org = <<"contoso", "fabrikam">>
    /\ rc_result = <<Some("tenant-a"), Some("tenant-b")>>
    /\ ResolvedAndWrote(1)
    /\ ResolvedAndWrote(2)
    /\ BothLoadBeforeEitherSaves
    /\ AccessAt(1, "save") < AccessAt(2, "save")
    /\ rc_file.kind = "valid"
    /\ DOMAIN rc_file.data = {"fabrikam"}

(***************************************************************************)
(* wit_update_work_items_batch                                             *)
(***************************************************************************)
\* the invocation of wit_update_work_items_batch has ended after its loop
\* issued at least one update call
BatchAnswered ==
    /\ tb_tool = "wit_update_work_items_batch"
    /\ tb_pc = "returned"
    /\ Len(tb_calls) >= 1

\* an entry with both an ID and a non-empty fields map
HasIdAndFields(work_item) == work_item.id.some /\ work_item.id.val # "" /\ Len(work_item.fields) >= 1

\* the IDs of such entries, in the order of the list
RECURSIVE IdsToUpdate(_)
IdsToUpdate(work_items) ==
    IF work_items = <<>> THEN <<>>
    ELSE IF HasIdAndFields(work_items[1])
    THEN <<work_items[1].id.val>> \o IdsToUpdate(Tail(work_items))
    ELSE IdsToUpdate(Tail(work_items))

\* C24: when wit_update_work_items_batch has ended, the update calls it
\* issued are exactly one per entry that has both an ID and a non-empty
\* fields map, for that ID and in list order, whatever the outcome of the
\* calls for the other entries, and once the call of an entry has returned
\* the text the tool returns lists those entries; entries without an ID or
\* without fields caused no call.
C24_BatchEntriesIndependent ==
    BatchAnswered =>
        /\ [k \in 1..Len(tb_calls) |-> tb_calls[k].id]
             = IdsToUpdate(tb_args.workItems)
        /\ tb_locals.results # <<>> =>
             tb_result =
               <<TextContent("[" \o results_text(IdsToUpdate(tb_args.workItems))
                                 \o "]")>>

(***************************************************************************)
(* The credential a tool invocation presents                               *)
(***************************************************************************)
\* the invocation has built its connection or sent its search request
ContactsRemote == tool_effects.conn >= 1 \/ tool_effects.remote >= 1

\* C25: whenever a tool invocation has built its connection or sent its
\* search request, the password or Bearer value it presented is a token
\* string the token provider yielded for this invocation.
C25_CredentialIsProviderToken ==
    (tool_pc \in {"running", "returned"} /\ ContactsRemote) =>
        /\ tool_credential.kind = "str"
        /\ tool_credential.val \in {"token-1", "token-2"}
        /\ tool_credential = tool_token

(***************************************************************************)
(* When the tenant resolver is asked                                       *)
(***************************************************************************)
\* the resolver was never called; it read no file and sent no request
ResolverUntouched ==
    /\ cli_resolver.calls = 0
    /\ cli_resolver.reads = 0
    /\ cli_resolver.heads = 0

\* C26: the tenant resolver is called at most once per run, only in stdio
\* mode and only when --tenant is not set; in HTTP mode, and whenever
\* --tenant is set, it is never called and neither the cache file nor the
\* network is touched, and a set --tenant is the tenant the authenticator is
\* constructed with; and a step that calls the resolver is taken while no
\* authenticator exists yet and constructs none.
C26_ResolverOnlyInStdioBeforeAuthenticator ==
    /\ [](/\ cli_resolver.calls <= 1
          /\ cli_resolver.calls = 1 =>
                cli_args.mode = "stdio" /\ Unset(cli_tenant)
          /\ cli_args.mode = "http" => ResolverUntouched
          /\ ~Unset(cli_tenant) =>
                /\ ResolverUntouched
                /\ cli_auth.made >= 1 => cli_auth.tenant_id = cli_tenant)
    /\ [][cli_resolver' # cli_resolver =>
             /\ cli_auth.made = 0
             /\ cli_auth' = cli_auth]_vars

\* stdio mode without --tenant: the resolver was called once, looked the
\* tenant up, and the authenticator was then constructed with its answer
C26_Witness ==
    /\ cli_args.mode = "stdio"
    /\ cli_tenant = None
    /\ cli_resolver = [calls |-> 1, reads |-> 1, heads |-> 1]
    /\ cli_auth = [made |-> 1, auth_type |-> "azcli",
                   tenant_id |-> Some("tenant-a")]
    /\ cli_server = "stdio"

(***************************************************************************)
(* The robust launcher                                                     *)
(***************************************************************************)
\* start_mcp_server ended with an exception
StartupFailed == rb_pc \in {"failed", "serving_errors"} \/ (rb_pc = "exited" /\ rb_startup_error.some)

\* the error server answered the last GET request with status 500, the
\* recorded startup error and every line logged so far
LastGetAnswered ==
    rb_response.method = "GET" =>
        /\ rb_response.answer.status = 500
        /\ rb_startup_error.some
        /\ rb_response.answer.startup_error = rb_startup_error.val
        /\ rb_response.answer.startup_logs = rb_startup_logs

\* the fallback server listens on the port of the environment
FallbackServes ==
    /\ rb_pc = "serving_errors"
    /\ rb_bound = rb_port
    /\ rb_bound = IF rb_env.port.some THEN 9000 ELSE 8000

\* the fallback server could not be started: the failure is the last line
\* logged, nothing listens and the process has ended
FallbackFailedToStart ==
    /\ rb_pc = "exited"
    /\ rb_bound = 0
    /\ rb_gets = 0
    /\ rb_startup_logs[Len(rb_startup_logs)] =
         "[MCP-ROBUST] Error server failed: Address already in use"

ArrivesWithPat(r) ==
    /\ dr_requests[r].pc = "free"
    /\ dr_requests'[r].pc = "in_base_app"
    /\ dr_requests'[r].scope.type = "http"
    /\ \E i \in 1..Len(dr_requests'[r].scope.headers) :
          Lower(dr_requests'[r].scope.headers[i][1]) = PAT_HEADER

\* a step in which test_connection answers the request of slot r
TestConnectionAnswers(r) ==
    /\ dr_requests[r].pc = "in_base_app"
    /\ dr_requests'[r].pc = "answered"

CONNECTED == "Connected to Azure DevOps organization: contoso"

PAT_MISSING == "Error: PAT token not provided in X-Azure-DevOps-PAT header"

\* C28 as stated: the stored PAT changes only in a step that takes a
\* request carrying the X-Azure-DevOps-PAT header, a stored PAT is never
\* cleared, and once a request has carried the header test_connection
\* returns the connected message to every request it answers.
C28_PatSticksOnceSeen ==
    [][/\ dr_token' # dr_token => \E r \in Slots : ArrivesWithPat(r)
       /\ ~NotToken(dr_token) => ~NotToken(dr_token')
       /\ \A r \in Slots :
             (TestConnectionAnswers(r) /\ dr_last_pat.some)
                => dr_requests'[r].text = CONNECTED]_vars

\* C28 amended: the stored PAT changes only in a step that takes a request
\* carrying the header, and then becomes that header's value, empty or not;
\* test_connection returns the connected message exactly when the last
\* header carried so far was not empty, whether or not the request it
\* answers carries a header.
C28_PatKeptUntilNextHeader ==
    [][/\ dr_token' # dr_token =>
             \E r \in Slots :
                /\ ArrivesWithPat(r)
                /\ dr_token' = extract_pat(dr_requests'[r].scope.headers)
       /\ \A r \in Slots :
             TestConnectionAnswers(r) =>
                dr_requests'[r].text =
                   IF dr_last_pat.some /\ dr_last_pat.val # ""
                   THEN CONNECTED ELSE PAT_MISSING]_vars

\* a tool call without any header was answered with the connected message:
\* the PAT of an earlier request was still stored
C28_Witness ==
    \E r \in Slots :
        /\ dr_requests[r].pc = "answered"
        /\ dr_requests[r].scope.headers = <<>>
        /\ dr_requests[r].text = CONNECTED
        /\ dr_token = Some("pat-of-bob-000002")

(***************************************************************************)
(* C29: the user-agent string after any sequence of appends                *)
(***************************************************************************)
\* positions of the calls so far whose info had a name and a version
UsableCalls == {i \in 1..Len(ua_infos) : info_is_usable(ua_infos[i])}

\* the first of them
FirstUsableCall == CHOOSE i \in UsableCalls : \A j \in UsableCalls : i <= j

\* the string the composer was constructed with
BaseUserAgent == "AzureDevOps.MCP/" \o ua_package_version \o " (python)"

\* C29: after any sequence of append_mcp_client_info calls the user-agent
\* string is the base string "AzureDevOps.MCP/<version> (python)" if no call
\* so far had info with a non-empty name and version, and otherwise the base
\* string followed by a space and <name>/<version> of the first such call;
\* calls with unusable info before it do not use up the one append.
C29_UserAgentIsBasePlusFirstUsable ==
    ua_pc = "made" =>
        IF UsableCalls = {}
        THEN ua_user_agent = BaseUserAgent
        ELSE ua_user_agent = BaseUserAgent \o " "
                               \o ua_infos[FirstUsableCall].name \o "/"
                               \o ua_infos[FirstUsableCall].version

\* absent info, then a name without a version, then cursor/2.1: the third
\* call appended
C29_Witness ==
    /\ ua_infos = <<NoInfo, McpClientInfo("vscode", ""),
                    McpClientInfo("cursor", "2.1")>>
    /\ ua_user_agent = "AzureDevOps.MCP/0.1.0 (python) cursor/2.1"

(***************************************************************************)
(* C30: wit_work_items_link and wit_work_item_unlink use the same keys     *)
(***************************************************************************)
\* wit_work_item_unlink has fetched the work item, and the call before it
\* was a wit_work_items_link with the same sourceId, targetId and linkType
\* whose update succeeded
UnlinksWhatWasLinked ==
    /\ tb_tool = "wit_work_item_unlink"
    /\ tb_locals.work_item.some
    /\ tb_linked.some
    /\ tb_linked.args = tb_args

\* the index, from 1, that the unlink's remove patch names
RemovedAt == patch_index(tb_locals.patch) + 1

UnlinkSucceeded ==
    /\ tb_pc = "returned"
    /\ tb_result = <<TextContent("result of wit_work_item_unlink")>>

C30_WitnessUnknownName ==
    /\ UnlinksWhatWasLinked
    /\ UnlinkSucceeded
    /\ tb_args.linkType = Some(CUSTOM_LINK)
    /\ tb_linked.value.rel = CUSTOM_LINK

====
